---- MODULE Spec2Model ----
(***************************************************************************)
(* A model of v-mars/storage (storage.go): one operation contract over a   *)
(* local file tree (LocalStorage) and two flat object stores (OSSStorage,  *)
(* MinIOStorage), plus the facade Types.GetStorage.                        *)
(*                                                                         *)
(* A path or an object key is a sequence of one-character strings, so that *)
(* filepath.Join/Clean, strings.HasPrefix and key[len(prefix):] are        *)
(* computed character by character, as the Go code computes them.          *)
(***************************************************************************)
EXTENDS Integers, Sequences, FiniteSets, TLC

(***************************************************************************)
(* Strings                                                                 *)
(***************************************************************************)

\* The byte value of a character (the order of keys in a bucket listing).
Ord(c) ==
    CASE c = "." -> 46
      [] c = "/" -> 47
      [] c = "0" -> 48
      [] c = "1" -> 49
      [] c = "2" -> 50
      [] c = "3" -> 51
      [] c = "4" -> 52
      [] c = "5" -> 53
      [] c = "6" -> 54
      [] c = "7" -> 55
      [] c = "8" -> 56
      [] c = "9" -> 57
      [] c = "a" -> 97
      [] c = "b" -> 98
      [] c = "c" -> 99
      [] c = "d" -> 100
      [] c = "r" -> 114
      [] c = "t" -> 116
      [] OTHER -> 122

\* s < t in byte order (the order in which a bucket lists its keys).
RECURSIVE LexLess(_, _)
LexLess(s, t) ==
    IF t = <<>> THEN FALSE
    ELSE IF s = <<>> THEN TRUE
    ELSE IF s[1] = t[1] THEN LexLess(Tail(s), Tail(t))
    ELSE Ord(s[1]) < Ord(t[1])

\* strings.HasPrefix(s, prefix)
HasPrefix(s, prefix) ==
    /\ Len(s) >= Len(prefix)
    /\ SubSeq(s, 1, Len(prefix)) = prefix

\* s[n:]
DropFirst(s, n) == SubSeq(s, n + 1, Len(s))

\* strings.Split(s, "/"): the segments between separators.
RECURSIVE SplitFrom(_, _, _)
SplitFrom(s, i, cur) ==
    IF i > Len(s) THEN <<cur>>
    ELSE IF s[i] = "/" THEN <<cur>> \o SplitFrom(s, i + 1, <<>>)
    ELSE SplitFrom(s, i + 1, Append(cur, s[i]))

Split(s) == SplitFrom(s, 1, <<>>)

\* strings.Join(segs, "/")
RECURSIVE JoinSegs(_)
JoinSegs(segs) ==
    IF segs = <<>> THEN <<>>
    ELSE IF Len(segs) = 1 THEN segs[1]
    ELSE segs[1] \o <<"/">> \o JoinSegs(Tail(segs))

\* The lexical processing of filepath.Clean: empty and "." segments are dropped,
\* ".." removes the segment before it (at the root it is dropped, at the start of
\* a relative path it is kept).
RECURSIVE CleanSegs(_, _, _)
CleanSegs(segs, out, rooted) ==
    IF segs = <<>> THEN out
    ELSE LET s == Head(segs)
             rest == Tail(segs)
         IN  IF s = <<>> \/ s = <<".">> THEN CleanSegs(rest, out, rooted)
             ELSE IF s = <<".", ".">>
                  THEN IF out # <<>> /\ out[Len(out)] # <<".", ".">>
                       THEN CleanSegs(rest, SubSeq(out, 1, Len(out) - 1), rooted)
                       ELSE IF rooted THEN CleanSegs(rest, out, rooted)
                       ELSE CleanSegs(rest, Append(out, s), rooted)
             ELSE CleanSegs(rest, Append(out, s), rooted)

\* filepath.Clean (Unix)
Clean(p) ==
    LET rooted == p # <<>> /\ p[1] = "/"
        body == JoinSegs(CleanSegs(Split(p), <<>>, rooted))
    IN  IF rooted THEN <<"/">> \o body
        ELSE IF body = <<>> THEN <<".">>
        ELSE body

\* filepath.Join(base, rel): empty leading elements are skipped, the rest is joined
\* with the separator and cleaned (a trailing separator does not survive).
Join(base, rel) ==
    IF base # <<>> THEN Clean(base \o <<"/">> \o rel)
    ELSE IF rel # <<>> THEN Clean(rel)
    ELSE <<>>

\* filepath.Dir: all but the last element of the cleaned path.
Dir(p) ==
    LET c == Clean(p)
        rooted == c[1] = "/"
        segs == CleanSegs(Split(c), <<>>, rooted)
        up == JoinSegs(SubSeq(segs, 1, Len(segs) - 1))
    IN  IF rooted THEN <<"/">> \o up
        ELSE IF up = <<>> THEN <<".">>
        ELSE up

\* ensureOSSDirPath
ensureOSSDirPath(path) ==
    IF Len(path) > 0 /\ path[Len(path)] # "/" THEN path \o <<"/">> ELSE path

\* isDirectoryPlaceholder
isDirectoryPlaceholder(key, dirPath) ==
    key = dirPath \/ key = dirPath \o <<"/">>

(***************************************************************************)
(* Inputs                                                                  *)
(***************************************************************************)

\* The configured base directory (BaseDir of the flat stores, BasePath of the
\* local store).
Base == <<"r">>

\* The logical paths a caller passes: a directory name, a file below it, the same
\* file written with a trailing separator, and a file in a sibling directory whose
\* name begins with the first directory's name.
Paths ==
    { <<"a">>,
      <<"a", "/", "b">>,
      <<"a", "/", "b", "/">>,
      <<"a", "b", "/", "c">> }

\* The byte sequences a caller uploads.
Contents == { <<>>, <<1, 2, 3>> }

\* Most entries of one batch call.
MaxBatch == 3

\* Most options of one GetStorage call.
MaxOpts == 1

\* Most GetStorage calls on one Types value.
MaxCalls == 2

\* Most elements of a native path of the file tree: a Rename of a directory that
\* would nest its entries deeper is not made.
MaxDepth == 3

\* The buffer lengths a caller reads a stream with: byte by byte, or with a buffer
\* longer than any content here (io.ReadAll starts with 512 bytes).
ReadSizes == {1, 512}

Backends == {"local", "oss", "minio"}

(***************************************************************************)
(* State                                                                   *)
(***************************************************************************)

VARIABLES
    types,      \* the Types value GetStorage is called on
    backend,    \* which Storage implementation the instance is
    fs,         \* local file tree: native path -> [dir, data, mtime]
    bucket,     \* flat store: native key -> object content
    streams,    \* the download streams handed out and not yet forgotten
    ret         \* the last call and what it returned

vars == <<types, backend, fs, bucket, streams, ret>>

Err(e) == e # ""

\* The record of a finished call: operation, arguments (p, q: paths or lists;
\* data: content, range or nothing), error ("" is nil), returned value, and pre,
\* what the store held for the call's arguments when it was made.
Ret(op, p, q, data, err, out, pre) ==
    [op |-> op, p |-> p, q |-> q, data |-> data, err |-> err, out |-> out, pre |-> pre]

\* The caller holds no result.
NoRet == Ret("none", <<>>, <<>>, <<>>, "", <<>>, <<>>)

\* time.Time{}, the zero time: the one time for which IsZero() is true.
ZeroTime == "zero"

\* The time a store stamps on what is written to it (all writes bear one stamp:
\* the clock is not modelled).
Written == "written"

\* The modification times a caller passes in a FileMetadata.
ModTimes == {ZeroTime, "given"}

\* FileMetadata (MIMEType, a constant of each backend, is not modelled).
FileMetadata(name, size, modTime, isDir) ==
    [name |-> name, size |-> size, modTime |-> modTime, isDir |-> isDir]

\* The result of a handler: error ("" is nil), the store afterwards (the file tree
\* or the bucket), and the value returned.
Res(err, store, out) == [err |-> err, store |-> store, out |-> out]

\* A function without the element k.
Without(f, k) == [y \in DOMAIN f \ {k} |-> f[y]]

\* A function with f[k] set to v.
With(f, k, v) == [y \in DOMAIN f \cup {k} |-> IF y = k THEN v ELSE f[y]]

\* The function f, enumerated: TLC computes the values of a function anew at each
\* application until it has had to enumerate the function, which a comparison
\* makes it do.
Table(f) == IF f = f THEN f ELSE f

\* Every key of S paired with the number of keys of S before it in byte order.
Ranked(S) == {<<Cardinality({o \in S : LexLess(o, k)}), k>> : k \in S}

\* A set of keys as a sequence in byte order: each key stands at the place that
\* follows the keys before it.
Placed(S, ranked) ==
    [i \in 1 .. Cardinality(S) |-> (CHOOSE pr \in ranked : pr[1] = i - 1)[2]]

SetToSeq(S) ==
    CHOOSE q \in UNION {{Placed(T, ranked) : ranked \in {Ranked(T)}} : T \in {S}} : TRUE

(***************************************************************************)
(* The flat object store (the remote service behind OSSStorage and         *)
(* MinIOStorage): a map from key to content.                               *)
(***************************************************************************)

\* The keys of the bucket that begin with prefix, in listing order.
KeysWithPrefix(b, prefix) == SetToSeq({k \in DOMAIN b : HasPrefix(k, prefix)})

\* The indexes at which a handler's remote calls can be made to fail (0: none
\* fails; k: the k-th remote call of the handler fails).
FailPoints == {0, 1, 2}


\* ---- OSSStorage ----------------------------------------------------------

\* The number of keys one ListObjects call of the OSS service returns when the
\* request names no max-keys, as the requests of ListDir and DeleteDir do.
OSSMaxKeys == 100

\* The page length below which ListDir and DeleteDir take a page to be the last.
PageLimit == 1000

\* OSSStorage.Upload
OSSUpload(b, filePath, data, fail) ==
    LET fullKey == Join(Base, filePath)
    IN  IF fail = 1 THEN Res("Remote", b, <<>>)
        ELSE Res("", With(b, fullKey, data), <<>>)

\* OSSStorage.Download: the response body of GetObject, or its error.
OSSDownload(b, filePath, fail) ==
    LET fullKey == Join(Base, filePath)
    IN  IF fail = 1 THEN Res("Remote", b, <<>>)
        ELSE IF fullKey \notin DOMAIN b THEN Res("NotFound", b, <<>>)
        ELSE Res("", b, b[fullKey])

\* What the OSS service sends for "Range: bytes=first-last": the bytes first..last
\* of the object when both lie inside it and first <= last, and the whole object
\* when the range is not a valid one.
OSSRangeBody(data, first, last) ==
    IF 0 <= first /\ first <= last /\ last < Len(data)
    THEN SubSeq(data, first + 1, last + 1)
    ELSE data

\* OSSStorage.DownloadRange
OSSDownloadRange(b, filePath, offset, size, fail) ==
    LET fullKey == Join(Base, filePath)
    IN  IF fail = 1 THEN Res("Remote", b, <<>>)
        ELSE IF fullKey \notin DOMAIN b THEN Res("NotFound", b, <<>>)
        ELSE Res("", b, OSSRangeBody(b[fullKey], offset, offset + size - 1))

\* OSSStorage.Delete with the logical path taken for the key, the base directory
\* left out.
OSSDeleteUnjoined(b, filePath, fail) ==
    IF fail = 1 THEN Res("Remote", b, <<>>)
    ELSE Res("", Without(b, Clean(filePath)), <<>>)

\* OSSStorage.Delete: DeleteObject succeeds whether or not the key exists.
OSSDelete(b, filePath, fail) ==
    LET fullKey == Join(Base, filePath)
    IN  IF fail = 1 THEN Res("Remote", b, <<>>)
        ELSE Res("", Without(b, fullKey), <<>>)

\* A Rename that goes on to delete the old path when CopyObject has failed.
OSSRenameUnchecked(b, oldPath, newPath, fail) ==
    IF fail = 1 THEN Res("Remote", OSSDelete(b, oldPath, 0).store, <<>>)
    ELSE IF Join(Base, oldPath) \notin DOMAIN b THEN Res("NotFound", b, <<>>)
    ELSE OSSDelete(With(b, Join(Base, newPath), b[Join(Base, oldPath)]), oldPath,
                   IF fail = 2 THEN 1 ELSE 0)

\* OSSStorage.Rename: CopyObject, then Delete of the old path.
OSSRename(b, oldPath, newPath, fail) ==
    LET oldFullKey == Join(Base, oldPath)
        newFullKey == Join(Base, newPath)
    IN  IF fail = 1 THEN Res("Remote", b, <<>>)
        ELSE IF oldFullKey \notin DOMAIN b THEN Res("NotFound", b, <<>>)
        ELSE LET copied == With(b, newFullKey, b[oldFullKey])
             IN  OSSDelete(copied, oldPath, IF fail = 2 THEN 1 ELSE 0)

\* OSSStorage.Copy
OSSCopy(b, srcPath, dstPath, fail) ==
    LET oldFullKey == Join(Base, srcPath)
        newFullKey == Join(Base, dstPath)
    IN  IF fail = 1 THEN Res("Remote", b, <<>>)
        ELSE IF oldFullKey \notin DOMAIN b THEN Res("NotFound", b, <<>>)
        ELSE Res("", With(b, newFullKey, b[oldFullKey]), <<>>)

\* A CreateDir that puts the placeholder whether or not it is there.
OSSCreateDirUnchecked(b, path, fail) ==
    IF fail \in {1, 2} THEN Res("Remote", b, <<>>)
    ELSE Res("", With(b, Join(Base, ensureOSSDirPath(path)), <<>>), <<>>)

\* OSSStorage.CreateDir
OSSCreateDir(b, path, fail) ==
    LET dirPath == ensureOSSDirPath(path)
        fullKey == Join(Base, dirPath)
    IN  IF fail = 1 THEN Res("Remote", b, <<>>)
        ELSE IF fullKey \in DOMAIN b THEN Res("", b, <<>>)
        ELSE IF fail = 2 THEN Res("Remote", b, <<>>)
        ELSE Res("", With(b, fullKey, <<>>), <<>>)

\* A loop that takes a batch for the last when it holds fewer objects than one
\* page of the service.
LastBatchOfService(objects) == Len(objects) < OSSMaxKeys

\* The test that ends the loops of OSSStorage.DeleteDir and OSSStorage.ListDir: the
\* batch holds fewer objects than the limit the code takes the service to have.
LastBatch(objects) == Len(objects) < PageLimit

\* One ListObjects call of the OSS service: the keys with the prefix that follow
\* the marker, at most OSSMaxKeys of them, and the marker of the next page (empty
\* when this page is the last).
OSSListPage(after) ==
    [Objects |-> IF Len(after) > OSSMaxKeys THEN SubSeq(after, 1, OSSMaxKeys) ELSE after,
     NextMarker |-> IF Len(after) > OSSMaxKeys THEN after[OSSMaxKeys] ELSE <<>>]

OSSListObjects(b, prefix, marker) ==
    CHOOSE objectListing \in
        {OSSListPage(after) :
            after \in {SelectSeq(KeysWithPrefix(b, prefix),
                                 LAMBDA k : marker = <<>> \/ LexLess(marker, k))}} : TRUE

\* The loop of OSSStorage.DeleteDir from the page at marker on; calls counts the
\* remote calls made so far.
RECURSIVE OSSDeleteDirLoop(_, _, _, _, _)
OSSDeleteDirLoop(b, fullKey, marker, calls, fail) ==
    IF fail = calls + 1 THEN Res("Remote", b, <<>>)
    ELSE LET objectListing == OSSListObjects(b, fullKey, marker)
             doomed == SelectSeq(objectListing.Objects,
                           LAMBDA k : HasPrefix(k, fullKey)
                                      /\ ~isDirectoryPlaceholder(k, fullKey))
         IN  IF doomed # <<>> /\ fail = calls + 2
             THEN Res("Remote", b, <<>>)
             ELSE LET after ==
                          [k \in DOMAIN b \ {Join(Base, doomed[i]) : i \in DOMAIN doomed}
                              |-> b[k]]
                  IN  IF LastBatch(objectListing.Objects)
                      THEN Res("", after, <<>>)
                      ELSE OSSDeleteDirLoop(after, fullKey, objectListing.NextMarker,
                                            calls + 1 + Len(doomed), fail)

\* OSSStorage.DeleteDir: every listed key is handed to Delete, which joins it to
\* the base directory as it does a logical path.
OSSDeleteDir(b, path, fail) ==
    LET dirPath == ensureOSSDirPath(path)
        fullKey == Join(Base, dirPath)
    IN  OSSDeleteDirLoop(b, fullKey, <<>>, 0, fail)

\* The entries OSSStorage.ListDir makes of one page.
OSSPageEntries(b, page, fullKey) ==
    LET kept == SelectSeq(page, LAMBDA k : HasPrefix(k, fullKey)
                                           /\ ~isDirectoryPlaceholder(k, fullKey))
    IN  [i \in DOMAIN kept |->
            FileMetadata(DropFirst(kept[i], Len(fullKey)), Len(b[kept[i]]), Written,
                         FALSE)]

\* The loop of OSSStorage.ListDir from the page at marker on.
RECURSIVE OSSListDirLoop(_, _, _, _, _, _)
OSSListDirLoop(b, fullKey, marker, fileMetas, calls, fail) ==
    IF fail = calls + 1 THEN Res("Remote", b, <<>>)
    ELSE LET objectListing == OSSListObjects(b, fullKey, marker)
             more == fileMetas \o OSSPageEntries(b, objectListing.Objects, fullKey)
         IN  IF LastBatch(objectListing.Objects)
             THEN Res("", b, more)
             ELSE OSSListDirLoop(b, fullKey, objectListing.NextMarker, more,
                                 calls + 1, fail)

\* OSSStorage.ListDir
OSSListDir(b, path, fail) ==
    LET dirPath == ensureOSSDirPath(path)
        fullKey == Join(Base, dirPath)
    IN  OSSListDirLoop(b, fullKey, <<>>, <<>>, 0, fail)

\* OSSStorage.GetMetadata
OSSGetMetadata(b, filePath, fail) ==
    LET fullKey == Join(Base, filePath)
    IN  IF fail = 1 THEN Res("Remote", b, <<>>)
        ELSE IF fullKey \notin DOMAIN b THEN Res("NotFound", b, <<>>)
        ELSE Res("", b, FileMetadata(filePath, Len(b[fullKey]), Written, FALSE))

\* An UpdateMetadata that reports success.
UpdateMetadataAccepted(b, filePath, metadata) == Res("", b, <<>>)

\* OSSStorage.UpdateMetadata: logs and returns an error; it calls nothing.
OSSUpdateMetadata(b, filePath, metadata) == Res("Unsupported", b, <<>>)

\* ---- MinIOStorage --------------------------------------------------------

\* MinIOStorage.Upload
MinIOUpload(b, filePath, data, fail) ==
    LET fullKey == Join(Base, filePath)
    IN  IF fail = 1 THEN Res("Remote", b, <<>>)
        ELSE Res("", With(b, fullKey, data), <<>>)

\* The Range header GetObjectOptions.SetRange(start, end) sets: "suffix" n for
\* bytes=-n (the last n bytes), "from" n for bytes=n-, "span" for bytes=n-m, and
\* "invalid" when it refuses the pair.
MinIOSetRange(start, end) ==
    IF start = 0 /\ end < 0 THEN [kind |-> "suffix", a |-> 0 - end, z |-> 0]
    ELSE IF 0 < start /\ end = 0 THEN [kind |-> "from", a |-> start, z |-> 0]
    ELSE IF 0 <= start /\ start <= end THEN [kind |-> "span", a |-> start, z |-> end]
    ELSE [kind |-> "invalid", a |-> 0, z |-> 0]

\* No Range header: the whole object.
MinIOWhole == [kind |-> "whole", a |-> 0, z |-> 0]

\* What a Read of the object returned by client.GetObject gets from the MinIO
\* service for a key and a Range header: an error when the key is absent or the
\* range starts beyond the object, the bytes otherwise.
MinIOBody(b, key, rng) ==
    IF key \notin DOMAIN b THEN [err |-> "NotFound", data |-> <<>>]
    ELSE LET data == b[key]
             n == Len(data)
         IN  CASE rng.kind = "whole" -> [err |-> "", data |-> data]
               [] rng.kind = "suffix" ->
                    IF n = 0 THEN [err |-> "InvalidRange", data |-> <<>>]
                    ELSE [err |-> "",
                          data |-> SubSeq(data, IF rng.a >= n THEN 1 ELSE n - rng.a + 1, n)]
               [] OTHER ->
                    IF rng.a >= n THEN [err |-> "InvalidRange", data |-> <<>>]
                    ELSE [err |-> "",
                          data |-> SubSeq(data, rng.a + 1,
                                          IF rng.kind = "from" \/ rng.z + 1 > n
                                          THEN n ELSE rng.z + 1)]

\* MinIOStorage.Download: client.GetObject sends nothing yet and returns an object
\* that fetches on its first Read; out is the key and range it will ask for.
MinIODownload(b, filePath) ==
    LET fullKey == Join(Base, filePath)
    IN  Res("", b, [key |-> fullKey, rng |-> MinIOWhole])

\* MinIOStorage.DownloadRange
MinIODownloadRange(b, filePath, offset, size) ==
    LET fullKey == Join(Base, filePath)
        opts == MinIOSetRange(offset, offset + size - 1)
    IN  IF opts.kind = "invalid" THEN Res("InvalidArgument", b, <<>>)
        ELSE Res("", b, [key |-> fullKey, rng |-> opts])

\* MinIOStorage.Delete: RemoveObject succeeds whether or not the key exists.
MinIODelete(b, filePath, fail) ==
    LET fullKey == Join(Base, filePath)
    IN  IF fail = 1 THEN Res("Remote", b, <<>>)
        ELSE Res("", Without(b, fullKey), <<>>)

\* MinIOStorage.Rename: CopyObject, then Delete of the old path.
MinIORename(b, oldPath, newPath, fail) ==
    LET oldFullKey == Join(Base, oldPath)
        newFullKey == Join(Base, newPath)
    IN  IF fail = 1 THEN Res("Remote", b, <<>>)
        ELSE IF oldFullKey \notin DOMAIN b THEN Res("NotFound", b, <<>>)
        ELSE LET copied == With(b, newFullKey, b[oldFullKey])
             IN  MinIODelete(copied, oldPath, IF fail = 2 THEN 1 ELSE 0)

\* MinIOStorage.Copy
MinIOCopy(b, srcPath, dstPath, fail) ==
    LET srcFullKey == Join(Base, srcPath)
        dstFullKey == Join(Base, dstPath)
    IN  IF fail = 1 THEN Res("Remote", b, <<>>)
        ELSE IF srcFullKey \notin DOMAIN b THEN Res("NotFound", b, <<>>)
        ELSE Res("", With(b, dstFullKey, b[srcFullKey]), <<>>)

\* MinIOStorage.CreateDir: any error of StatObject is taken for "absent".
MinIOCreateDir(b, path, fail) ==
    LET dirPath == ensureOSSDirPath(path)
        fullKey == Join(Base, dirPath)
    IN  IF fail # 1 /\ fullKey \in DOMAIN b THEN Res("", b, <<>>)
        ELSE MinIOUpload(b, dirPath, <<>>, IF fail = 2 THEN 1 ELSE 0)

\* The part of key up to and including the first separator after the prefix, or
\* the whole key when there is none.
RollUp(key, prefix) ==
    LET rest == DropFirst(key, Len(prefix))
        cut == {i \in DOMAIN rest : rest[i] = "/"}
    IN  IF cut = {} THEN key
        ELSE SubSeq(key, 1, Len(prefix) + (CHOOSE i \in cut : \A j \in cut : i <= j))

\* client.ListObjects: every key with the prefix when recursive; otherwise the keys
\* with no separator after the prefix, followed by the common prefixes (each once,
\* with size 0) of the others.
MinIOListObjects(b, prefix, recursive) ==
    LET all == {k \in DOMAIN b : HasPrefix(k, prefix)}
        plain == {k \in all : RollUp(k, prefix) = k}
        rolled == {RollUp(k, prefix) : k \in all \ plain}
        objs == SetToSeq(IF recursive THEN all ELSE plain)
        dirs == SetToSeq(IF recursive THEN {} ELSE rolled)
    IN  [i \in DOMAIN objs |-> [Key |-> objs[i], Size |-> Len(b[objs[i]])]]
        \o [i \in DOMAIN dirs |-> [Key |-> dirs[i], Size |-> 0]]

\* MinIOStorage.DeleteDir: every listed key is handed to Delete, which joins it to
\* the base directory as it does a logical path.
MinIODeleteDir(b, path, fail) ==
    LET dirPath == ensureOSSDirPath(path)
        fullKey == Join(Base, dirPath)
        listed == MinIOListObjects(b, fullKey, TRUE)
    IN  IF fail = 1 THEN Res("Remote", b, <<>>)
        ELSE IF listed # <<>> /\ fail = 2 THEN Res("Remote", b, <<>>)
        ELSE Res("",
                  [k \in DOMAIN b \ {Join(Base, listed[i].Key) : i \in DOMAIN listed}
                      |-> b[k]],
                  <<>>)

\* MinIOStorage.ListDir
MinIOListDir(b, path, fail) ==
    LET dirPath == ensureOSSDirPath(path)
        fullKey == Join(Base, dirPath)
        listed == MinIOListObjects(b, fullKey, FALSE)
    IN  IF fail = 1 THEN Res("Remote", b, <<>>)
        ELSE Res("", b,
                  [i \in DOMAIN listed |->
                      FileMetadata(DropFirst(listed[i].Key, Len(fullKey)),
                                   listed[i].Size, Written,
                                   listed[i].Key[Len(listed[i].Key)] = "/")])

\* MinIOStorage.GetMetadata
MinIOGetMetadata(b, filePath, fail) ==
    LET fullKey == Join(Base, filePath)
    IN  IF fail = 1 THEN Res("Remote", b, <<>>)
        ELSE IF fullKey \notin DOMAIN b THEN Res("NotFound", b, <<>>)
        ELSE Res("", b, FileMetadata(filePath, Len(b[fullKey]), Written,
                                      fullKey[Len(fullKey)] = "/"))

\* MinIOStorage.UpdateMetadata: logs and returns an error; it calls nothing.
MinIOUpdateMetadata(b, filePath, metadata) == Res("Unsupported", b, <<>>)

(***************************************************************************)
(* The local file tree behind LocalStorage: a map from native path to a    *)
(* node, a directory or a file with its content.  The working directory    *)
(* "." is a directory that is always there.                                *)
(***************************************************************************)

DirNode == [dir |-> TRUE, data |-> <<>>, mtime |-> Written]
FileNode(data) == [dir |-> FALSE, data |-> data, mtime |-> Written]

IsDirAt(f, p) == p \in DOMAIN f /\ f[p].dir
IsFileAt(f, p) == p \in DOMAIN f /\ ~f[p].dir

\* p and the paths below it.
Subtree(f, p) == {q \in DOMAIN f : q = p \/ HasPrefix(q, p \o <<"/">>)}

\* The entries of directory p.
Children(f, p) == {q \in DOMAIN f : q # p /\ q # <<".">> /\ Dir(q) = p}

\* p and its ancestors up to the working directory.
RECURSIVE Ancestors(_)
Ancestors(p) ==
    IF p = <<".">> \/ p = <<"/">> THEN {p} ELSE {p} \cup Ancestors(Dir(p))

\* os.MkdirAll: fails when p or an ancestor of p is a file, and otherwise makes
\* every missing directory on the way to p.
MkdirAll(f, p) ==
    IF \E q \in Ancestors(p) : IsFileAt(f, q) THEN Res("NotDir", f, <<>>)
    ELSE Res("", [q \in DOMAIN f \cup Ancestors(p) |->
                      IF q \in DOMAIN f THEN f[q] ELSE DirNode], <<>>)

\* os.Create: the file at p, truncated, in a directory that exists.
Create(f, p) ==
    IF ~IsDirAt(f, Dir(p))
    THEN Res(IF Dir(p) \in DOMAIN f THEN "NotDir" ELSE "NotFound", f, <<>>)
    ELSE IF IsDirAt(f, p) THEN Res("IsDir", f, <<>>)
    ELSE Res("", With(f, p, FileNode(<<>>)), <<>>)

\* What io.Copy leaves in the destination when the source reader yields data and
\* then ends (fail = 0), fails at once (fail = 1) or fails after its first byte
\* (fail = 2).
Copied(data, fail) ==
    IF fail = 0 THEN data
    ELSE IF fail = 1 \/ data = <<>> THEN <<>>
    ELSE <<data[1]>>

\* LocalStorage.Upload with the file opened for writing but not truncated: what
\* the file held beyond the new content stays.
LocalUploadNoTruncate(f, filePath, data, fail) ==
    LET fullPath == Join(Base, filePath)
        made == MkdirAll(f, Dir(fullPath))
        created == Create(made.store, fullPath)
        old == IF IsFileAt(f, fullPath) THEN f[fullPath].data ELSE <<>>
        new == Copied(data, fail)
    IN  IF Err(made.err) THEN made
        ELSE IF Err(created.err) THEN created
        ELSE Res(IF fail = 0 THEN "" ELSE "IO",
                 With(created.store, fullPath,
                      FileNode(new \o SubSeq(old, Len(new) + 1, Len(old)))), <<>>)

\* LocalStorage.Upload
LocalUpload(f, filePath, data, fail) ==
    LET fullPath == Join(Base, filePath)
        made == MkdirAll(f, Dir(fullPath))
        created == Create(made.store, fullPath)
    IN  IF Err(made.err) THEN made
        ELSE IF Err(created.err) THEN created
        ELSE Res(IF fail = 0 THEN "" ELSE "IO",
                  With(created.store, fullPath, FileNode(Copied(data, fail))), <<>>)

\* LocalStorage.Delete: os.Remove takes a file or an empty directory.
LocalDelete(f, filePath) ==
    LET fullPath == Join(Base, filePath)
    IN  IF fullPath \notin DOMAIN f THEN Res("NotFound", f, <<>>)
        ELSE IF Children(f, fullPath) # {} THEN Res("NotEmpty", f, <<>>)
        ELSE Res("", Without(f, fullPath), <<>>)

\* Where os.Rename(old, new) puts the path q of old's subtree.
Moved(q, old, new) == new \o DropFirst(q, Len(old))

\* LocalStorage.Rename: os.Rename moves a file or a whole directory; it replaces
\* an existing file, refuses an existing directory, and leaves everything as it is
\* when old and new are the same path.
LocalRename(f, oldPath, newPath) ==
    LET oldFullPath == Join(Base, oldPath)
        newFullPath == Join(Base, newPath)
        moving == Subtree(f, oldFullPath)
    IN  IF oldFullPath \notin DOMAIN f THEN Res("NotFound", f, <<>>)
        ELSE IF oldFullPath = newFullPath THEN Res("", f, <<>>)
        ELSE IF IsDirAt(f, newFullPath) THEN Res("Exist", f, <<>>)
        ELSE IF ~IsDirAt(f, Dir(newFullPath))
             THEN Res(IF Dir(newFullPath) \in DOMAIN f THEN "NotDir" ELSE "NotFound",
                       f, <<>>)
        ELSE IF IsDirAt(f, oldFullPath) /\ IsFileAt(f, newFullPath)
             THEN Res("NotDir", f, <<>>)
        ELSE IF HasPrefix(newFullPath, oldFullPath \o <<"/">>)
             THEN Res("Invalid", f, <<>>)
        ELSE Res("",
                  [q \in ((DOMAIN f \ moving) \cup
                          {Moved(m, oldFullPath, newFullPath) : m \in moving}) |->
                      IF \E m \in moving : Moved(m, oldFullPath, newFullPath) = q
                      THEN f[CHOOSE m \in moving : Moved(m, oldFullPath, newFullPath) = q]
                      ELSE f[q]],
                  <<>>)

\* LocalStorage.Copy: the source is opened, the destination created (truncated),
\* and what the source then holds is copied; reading a directory fails.
LocalCopy(f, srcPath, dstPath) ==
    LET srcFullPath == Join(Base, srcPath)
        dstFullPath == Join(Base, dstPath)
        created == Create(f, dstFullPath)
    IN  IF srcFullPath \notin DOMAIN f THEN Res("NotFound", f, <<>>)
        ELSE IF Err(created.err) THEN created
        ELSE IF created.store[srcFullPath].dir THEN Res("IsDir", created.store, <<>>)
        ELSE Res("", With(created.store, dstFullPath, created.store[srcFullPath]), <<>>)

\* LocalStorage.CreateDir
LocalCreateDir(f, dirPath) == MkdirAll(f, Join(Base, dirPath))

\* LocalStorage.DeleteDir: os.RemoveAll removes the path and everything below it,
\* and returns no error when the path does not exist.
LocalDeleteDir(f, dirPath) ==
    LET fullPath == Join(Base, dirPath)
    IN  Res("", [q \in DOMAIN f \ Subtree(f, fullPath) |-> f[q]], <<>>)

\* filepath.Walk: the root, then the entries of each directory in the order of
\* their names, each followed by its own entries.
RECURSIVE Walk(_, _)
Walk(f, todo) ==
    IF todo = <<>> THEN <<>>
    ELSE <<Head(todo)>> \o Walk(f, SetToSeq(Children(f, Head(todo))) \o Tail(todo))

\* filepath.Rel(base, target) for a target that is base or lies below it.
Rel(base, target) ==
    IF Clean(target) = Clean(base) THEN <<".">>
    ELSE DropFirst(Clean(target), Len(Clean(base)) + 1)

\* The size os.FileInfo reports: a file's length; a directory's is the platform's
\* own and is modelled as 0.
SizeAt(f, p) == IF f[p].dir THEN 0 ELSE Len(f[p].data)

\* LocalStorage.ListDir
LocalListDir(f, dirPath) ==
    LET fullPath == Join(Base, dirPath)
        walked == Walk(f, <<fullPath>>)
    IN  IF fullPath \notin DOMAIN f THEN Res("NotFound", f, <<>>)
        ELSE Res("", f,
                  [i \in DOMAIN walked |->
                      FileMetadata(Rel(Base, walked[i]), SizeAt(f, walked[i]),
                                   f[walked[i]].mtime, f[walked[i]].dir)])

\* A GetMetadata that names the file as ListDir does, relative to the base.
LocalGetMetadataRel(f, filePath) ==
    IF Join(Base, filePath) \notin DOMAIN f THEN Res("NotFound", f, <<>>)
    ELSE Res("", f, FileMetadata(Rel(Base, Join(Base, filePath)),
                                  SizeAt(f, Join(Base, filePath)),
                                  f[Join(Base, filePath)].mtime,
                                  f[Join(Base, filePath)].dir))

\* LocalStorage.GetMetadata
LocalGetMetadata(f, filePath) ==
    LET fullPath == Join(Base, filePath)
    IN  IF fullPath \notin DOMAIN f THEN Res("NotFound", f, <<>>)
        ELSE Res("", f, FileMetadata(filePath, SizeAt(f, fullPath), f[fullPath].mtime,
                                      f[fullPath].dir))

\* os.Chtimes with one time for both stamps. omit: the build's os.Chtimes leaves
\* a stamp unchanged when it is given the zero time (Go 1.20 and later); before
\* that it sets the zero time like any other.
Chtimes(f, name, t, omit) ==
    IF name \notin DOMAIN f THEN Res("NotFound", f, <<>>)
    ELSE IF t = ZeroTime /\ omit THEN Res("", f, <<>>)
    ELSE Res("", With(f, name, [f[name] EXCEPT !.mtime = t]), <<>>)

\* LocalStorage.UpdateMetadata
LocalUpdateMetadata(f, filePath, metadata, omit) ==
    LET fullPath == Join(Base, filePath)
    IN  IF metadata.modTime = ZeroTime
        THEN Chtimes(f, fullPath, metadata.modTime, omit)
        ELSE Res("", f, <<>>)

(***************************************************************************)
(* Download streams.  A stream of the local store is the read end of an    *)
(* io.Pipe whose write end a producer goroutine feeds from the file; a     *)
(* stream of OSS is the response body of GetObject; a stream of MinIO is   *)
(* the object of client.GetObject, which asks the service on its first     *)
(* Read.                                                                   *)
(*   pc      "open" / "copy": where the producer goroutine is; "lazy": not *)
(*           yet fetched (MinIO); "done": nothing more will be produced    *)
(*   pend    bytes written and not yet read (the pipe's pending Write, or  *)
(*           the rest of a response body)                                  *)
(*   werr    how the producing side ended: "", "EOF" or an error           *)
(*   closed  the consumer closed the stream                                *)
(*   lost    the program holds no reference to the stream any more         *)
(*   recv    the bytes the consumer has read                               *)
(*   end     what the consumer's last Read returned: "", "EOF" or an error *)
(*   prev    the call that returned just before the download was made      *)
(*   wrote   how many bytes the producer goroutine has handed to the pipe  *)
(*   fd      the producer goroutine holds the file open                    *)
(*   perr    the error the producer goroutine met and logged ("": none)    *)
(***************************************************************************)

NewStream(kind, path, full, rng, pc, pend, werr, prev) ==
    [kind |-> kind, path |-> path, full |-> full, rng |-> rng, pc |-> pc,
     pos |-> 0, pend |-> pend, werr |-> werr, closed |-> FALSE, lost |-> FALSE,
     recv |-> <<>>, end |-> "", prev |-> prev, wrote |-> 0, fd |-> FALSE,
     perr |-> ""]

\* offset and size of a ranged download; size -1: to the end of the file.
Range(offset, size) == [off |-> offset, size |-> size]

\* LocalStorage.Download and LocalStorage.DownloadRange: the pipe is made, the
\* producer goroutine started, and the read end returned; no error is returned.
LocalDownloadRange(filePath, offset, size, prev) ==
    NewStream("pipe", filePath, Join(Base, filePath), Range(offset, size),
              "open", <<>>, "", prev)

LocalDownload(filePath, prev) == LocalDownloadRange(filePath, 0, -1, prev)

\* The response body OSSStorage.Download and DownloadRange return.
OSSBody(filePath, data, prev) ==
    NewStream("body", filePath, Join(Base, filePath), <<>>, "done", data, "EOF", prev)

\* The object MinIOStorage.Download and DownloadRange return.
MinIOObject(filePath, out, prev) ==
    NewStream("lazy", filePath, out.key, out.rng, "lazy", <<>>, "", prev)

\* A pipe whose write end keeps the error of its last close.
CloseWithErrorLast(s, err) ==
    [s EXCEPT !.werr = err, !.pc = "done", !.pend = <<>>]

\* pw.CloseWithError: the first error stored is the one the reader gets.
CloseWithError(s, err) ==
    [s EXCEPT !.werr = IF s.werr = "" THEN err ELSE s.werr, !.pc = "done",
              !.pend = <<>>]

\* The producer goroutine returns: its deferred calls run, file.Close() (when the
\* file was opened) and pw.Close(), which is CloseWithError(nil): end of stream.
Deferred(s) == [CloseWithError(s, "EOF") EXCEPT !.fd = FALSE]

\* The producer goroutine meets an error: it logs it, hands it to
\* pw.CloseWithError and returns.
Fails(s, err) == Deferred(CloseWithError([s EXCEPT !.perr = err], err))

\* The producer goroutine opens the file and, for a ranged download, seeks.
ProducerOpen(s, f) ==
    IF s.full \notin DOMAIN f THEN Fails(s, "NotFound")
    ELSE IF s.rng.off < 0 THEN Fails(s, "Invalid")
    ELSE [s EXCEPT !.pc = "copy", !.pos = s.rng.off, !.fd = TRUE]

\* A pipe whose Write does not learn that the read end was closed.
WriteUnaware(s) == s

\* A Write to a pipe whose read end is closed returns io.ErrClosedPipe, which
\* io.Copy returns.
WriteToClosed(s) == Fails(s, "ClosedPipe")

\* A Read of the file fails, and io.Copy returns the error.
ReadError(s) == Fails(s, "IO")

\* A pipe with a buffer: a Write returns before its bytes are read.
CanWriteAlways(s) == TRUE

\* io.Pipe has no buffer: a Write returns when all its bytes have been read, so
\* the producer makes its next Write only when nothing is pending.
CanWrite(s) == s.pend = <<>>

\* The bytes one Read of io.Copy gets from the file at the stream's position, cut
\* by io.LimitReader to what is left of size (every file here is shorter than
\* io.Copy's buffer).
Chunk(s, f) ==
    LET data == f[s.full].data
        rest == SubSeq(data, s.pos + 1, Len(data))
        left == s.rng.size - (s.pos - s.rng.off)
    IN  IF s.rng.size = -1 THEN rest
        ELSE IF left <= 0 THEN <<>>
        ELSE IF left < Len(rest) THEN SubSeq(rest, 1, left)
        ELSE rest

\* (No call changes the tree while a stream is pending in the specifications below,
\* so the open file is read through its path.)
\* One round of the producer's io.Copy: a Read of the file (a directory cannot be
\* read), then the Write to the pipe, which stays pending until it is read; at the
\* end of the file the deferred pw.Close ends the stream.
ProducerCopy(s, f) ==
    IF s.rng.size # -1 /\ s.rng.size - (s.pos - s.rng.off) <= 0
    THEN Deferred(s)
    ELSE IF f[s.full].dir THEN Fails(s, "IsDir")
    ELSE IF Chunk(s, f) = <<>> THEN Deferred(s)
    ELSE IF s.closed THEN WriteToClosed(s)
    ELSE [s EXCEPT !.pend = Chunk(s, f), !.pos = s.pos + Len(Chunk(s, f)),
                   !.wrote = s.wrote + Len(Chunk(s, f))]

\* The first Read of a MinIO object asks the service for the key and range.
Fetched(s, b) ==
    LET body == MinIOBody(b, s.full, s.rng)
    IN  IF s.pc # "lazy" THEN s
        ELSE IF Err(body.err) THEN [s EXCEPT !.pc = "done", !.werr = body.err]
        ELSE [s EXCEPT !.pc = "done", !.pend = body.data, !.werr = "EOF"]

\* Read with a buffer of n bytes: pending bytes if there are any, otherwise the way
\* the producing side ended.
ReadStream(s, n) ==
    LET k == IF n < Len(s.pend) THEN n ELSE Len(s.pend)
    IN  IF s.pend # <<>>
        THEN [s EXCEPT !.recv = s.recv \o SubSeq(s.pend, 1, k),
                       !.pend = SubSeq(s.pend, k + 1, Len(s.pend))]
        ELSE [s EXCEPT !.end = s.werr]

\* A stream nothing more will happen to.
Finished(s) ==
    /\ s.end # "" \/ s.closed \/ s.lost
    /\ s.kind = "pipe" => s.pc = "done"

(***************************************************************************)
(* The facade: a Types value, the options, and GetStorage                  *)
(***************************************************************************)

\* The StorageType constants.
Local == "local"
OSS == "oss"
MinIO == "minio"

\* The values a mode field is given: unset, the three constants, and a name the
\* switch of GetStorage has no case for.
Modes == {"", Local, OSS, MinIO, "s3"}

\* os.TempDir()
TempDir == <<"/", "t">>

LocalStorageConfig(BasePath) == [BasePath |-> BasePath]

OSSStorageConfig(Endpoint, AccessKeyID, AccessKeySecret, Bucket, BaseDir) ==
    [Endpoint |-> Endpoint, AccessKeyID |-> AccessKeyID,
     AccessKeySecret |-> AccessKeySecret, Bucket |-> Bucket, BaseDir |-> BaseDir]

\* (UseSSL is not modelled.)
MinIOStorageConfig(Endpoint, AccessKeyID, AccessKeySecret, Bucket, BaseDir) ==
    [Endpoint |-> Endpoint, AccessKeyID |-> AccessKeyID,
     AccessKeySecret |-> AccessKeySecret, Bucket |-> Bucket, BaseDir |-> BaseDir]

\* The struct Types.
Types(Mode, AssignMode, MaxSize, LocalCfg, MinioCfg, OssCfg) ==
    [Mode |-> Mode, AssignMode |-> AssignMode, MaxSize |-> MaxSize,
     Local |-> LocalCfg, Minio |-> MinioCfg, Oss |-> OssCfg]

\* A StorageOption: the name of the function that made it and its argument.
StorageOption(name, arg) == [name |-> name, arg |-> arg]

\* A WithMode whose closure sets the assigned mode as well.
WithModeAssigning(mode, s) == [s EXCEPT !.Mode = mode, !.AssignMode = mode]

\* The closures the With... functions return, applied to the Types value s.
WithLocalConfig(config, s) == [s EXCEPT !.Local = config, !.Mode = Local]
WithMinIOConfig(config, s) == [s EXCEPT !.Minio = config, !.Mode = MinIO]
WithOSSConfig(config, s) == [s EXCEPT !.Oss = config, !.Mode = OSS]
WithMode(mode, s) == [s EXCEPT !.Mode = mode]
WithAssignMode(mode, s) == [s EXCEPT !.AssignMode = mode]
WithMaxSize(maxSize, s) == [s EXCEPT !.MaxSize = maxSize]

\* opt(s)
ApplyOption(opt, s) ==
    CASE opt.name = "WithLocalConfig" -> WithLocalConfig(opt.arg, s)
      [] opt.name = "WithMinIOConfig" -> WithMinIOConfig(opt.arg, s)
      [] opt.name = "WithOSSConfig" -> WithOSSConfig(opt.arg, s)
      [] opt.name = "WithMode" -> WithMode(opt.arg, s)
      [] opt.name = "WithAssignMode" -> WithAssignMode(opt.arg, s)
      [] OTHER -> WithMaxSize(opt.arg, s)

\* for _, opt := range opts { opt(s) }
RECURSIVE ApplyOptions(_, _)
ApplyOptions(opts, s) ==
    IF opts = <<>> THEN s ELSE ApplyOptions(Tail(opts), ApplyOption(Head(opts), s))

\* DefaultStorageOptions
DefaultStorageOptions ==
    << StorageOption("WithMode", Local),
       StorageOption("WithLocalConfig", LocalStorageConfig(TempDir)) >>

\* The zero value of a flat-store configuration.
NoConfig == OSSStorageConfig("", "", "", "", <<>>)

\* A complete flat-store configuration.
FullConfig == OSSStorageConfig("e", "i", "k", "b", Base)

\* The check of a flat-store configuration without its test of the bucket.
IncompleteButBucket(c) ==
    c.BaseDir = <<>> \/ c.Endpoint = "" \/ c.AccessKeyID = "" \/ c.AccessKeySecret = ""

\* A flat-store configuration with a required field empty.
Incomplete(c) ==
    c.BaseDir = <<>> \/ c.Endpoint = "" \/ c.AccessKeyID = ""
        \/ c.AccessKeySecret = "" \/ c.Bucket = ""

\* What GetStorage returns and leaves behind: the Types value after the call, the
\* returned string, the kind of the returned Storage ("nil": none), the
\* configuration the instance was made with, the last value of the local
\* variable opts, and the constructor the call invoked ("": none). built: the
\* flat-store constructor got its client and bucket (NewOSSStorage and
\* NewMinIOStorage return nil when they do not).
Got(s, path, storage, config, opts, made) ==
    [types |-> s, path |-> path, storage |-> storage, config |-> config,
     opts |-> opts, made |-> made]

\* A Types value whose assigned mode stays as it is.
NoInherit(s) == s

\* if s.AssignMode == "" && s.Mode != "" { s.AssignMode = s.Mode }
Inherit(s) ==
    IF s.AssignMode = "" /\ s.Mode # "" THEN [s EXCEPT !.AssignMode = s.Mode] ELSE s

\* Types.GetStorage
GetStorageOn(s0, opts0, built) ==
    LET s1 == ApplyOptions(opts0, s0)
        s == Inherit(s1)
        opts == IF s1.AssignMode = "" /\ s1.Mode = ""
                THEN DefaultStorageOptions
                ELSE opts0
    IN  CASE s.AssignMode = MinIO ->
                IF Incomplete(s.Minio) THEN Got(s, <<>>, "nil", <<>>, opts, "")
                ELSE Got(s, s.Minio.BaseDir, IF built THEN MinIO ELSE "nil",
                         IF built THEN s.Minio ELSE <<>>, opts, "NewMinIOStorage")
          [] s.AssignMode = OSS ->
                IF Incomplete(s.Oss) THEN Got(s, <<>>, "nil", <<>>, opts, "")
                ELSE Got(s, s.Oss.BaseDir, IF built THEN OSS ELSE "nil",
                         IF built THEN s.Oss ELSE <<>>, opts, "NewOSSStorage")
          [] OTHER ->
                IF s.Local.BasePath = <<>> THEN Got(s, <<>>, "nil", <<>>, opts, "")
                ELSE Got(s, s.Local.BasePath, Local, s.Local, opts, "NewLocalStorage")

(***************************************************************************)
(* The calls, dispatched on the implementation behind the Storage value.   *)
(***************************************************************************)

\* The store of the instance's backend.
Store == IF backend = "local" THEN fs ELSE bucket

\* What the store holds for logical path p: <<content>> for a file or an object,
\* <<>> for nothing (or a directory).
Held(st, p) ==
    LET k == Join(Base, p)
    IN  IF k \notin DOMAIN st THEN <<>>
        ELSE IF backend = "local" THEN (IF st[k].dir THEN <<>> ELSE <<st[k].data>>)
        ELSE <<st[k]>>

\* The remote calls of a handler with n of them that can be made to fail; the
\* local store makes no remote call.
FailsOf(n) == IF backend = "local" THEN {0} ELSE {k \in FailPoints : k <= n}

\* The caller is between two calls: it holds no result and no stream.
Idle == ret.op = "none" /\ streams = <<>>

\* A call returns: the store and the result change, the streams do not.
Returns(op, p, q, data, r, pre) ==
    /\ fs' = IF backend = "local" THEN r.store ELSE fs
    /\ bucket' = IF backend = "local" THEN bucket ELSE r.store
    /\ ret' = Ret(op, p, q, data, r.err, r.out, pre)
    /\ UNCHANGED <<types, backend, streams>>

\* Upload on a given store st of the backend.
UploadOn(st, p, data, fail) ==
    CASE backend = "local" -> LocalUpload(st, p, data, fail)
      [] backend = "oss" -> OSSUpload(st, p, data, fail)
      [] OTHER -> MinIOUpload(st, p, data, fail)

\* Delete on a given store st of the backend.
DeleteOn(st, p, fail) ==
    CASE backend = "local" -> LocalDelete(st, p)
      [] backend = "oss" -> OSSDelete(st, p, fail)
      [] OTHER -> MinIODelete(st, p, fail)

RenameOn(p, q, fail) ==
    CASE backend = "local" -> LocalRename(fs, p, q)
      [] backend = "oss" -> OSSRename(bucket, p, q, fail)
      [] OTHER -> MinIORename(bucket, p, q, fail)

CopyOn(p, q, fail) ==
    CASE backend = "local" -> LocalCopy(fs, p, q)
      [] backend = "oss" -> OSSCopy(bucket, p, q, fail)
      [] OTHER -> MinIOCopy(bucket, p, q, fail)

CreateDirOn(p, fail) ==
    CASE backend = "local" -> LocalCreateDir(fs, p)
      [] backend = "oss" -> OSSCreateDir(bucket, p, fail)
      [] OTHER -> MinIOCreateDir(bucket, p, fail)

DeleteDirOn(p, fail) ==
    CASE backend = "local" -> LocalDeleteDir(fs, p)
      [] backend = "oss" -> OSSDeleteDir(bucket, p, fail)
      [] OTHER -> MinIODeleteDir(bucket, p, fail)

\* ListDir on a given store st of the backend.
ListDirOn(st, p, fail) ==
    CASE backend = "local" -> LocalListDir(st, p)
      [] backend = "oss" -> OSSListDir(st, p, fail)
      [] OTHER -> MinIOListDir(st, p, fail)

\* GetMetadata on a given store st of the backend.
GetMetadataOn(st, p, fail) ==
    CASE backend = "local" -> LocalGetMetadata(st, p)
      [] backend = "oss" -> OSSGetMetadata(st, p, fail)
      [] OTHER -> MinIOGetMetadata(st, p, fail)

\* UpdateMetadata on a given store st of the backend.
UpdateMetadataOn(st, p, metadata, omit) ==
    CASE backend = "local" -> LocalUpdateMetadata(st, p, metadata, omit)
      [] backend = "oss" -> OSSUpdateMetadata(st, p, metadata)
      [] OTHER -> MinIOUpdateMetadata(st, p, metadata)

\* Storage.Upload
Upload(p, data, fail) ==
    /\ Idle
    /\ Returns("Upload", p, <<>>, data, UploadOn(Store, p, data, fail), Held(Store, p))

\* Storage.Delete
Delete(p, fail) ==
    /\ Idle
    /\ Returns("Delete", p, <<>>, <<>>, DeleteOn(Store, p, fail), Store)

\* Storage.Rename and Storage.Move (every Move is a call of Rename)
Rename(p, q, fail) ==
    /\ Idle
    /\ \A k \in DOMAIN RenameOn(p, q, fail).store : Len(Split(k)) <= MaxDepth
    /\ Returns("Rename", p, q, <<fail>>, RenameOn(p, q, fail), Store)

\* Storage.Copy
Copy(p, q, fail) ==
    /\ Idle
    /\ Returns("Copy", p, q, <<>>, CopyOn(p, q, fail), Store)

\* Storage.CreateDir
CreateDir(p, fail) ==
    /\ Idle
    /\ Returns("CreateDir", p, <<>>, <<>>, CreateDirOn(p, fail), Store)

\* Storage.DeleteDir
DeleteDir(p, fail) ==
    /\ Idle
    /\ Returns("DeleteDir", p, <<>>, <<>>, DeleteDirOn(p, fail), Store)

\* Storage.ListDir
ListDir(p, fail) ==
    /\ Idle
    /\ Returns("ListDir", p, <<>>, <<>>, ListDirOn(Store, p, fail), <<>>)

\* Storage.GetMetadata
GetMetadata(p, fail) ==
    /\ Idle
    /\ Returns("GetMetadata", p, <<>>, <<>>, GetMetadataOn(Store, p, fail), Store)

\* Storage.UpdateMetadata
UpdateMetadata(p, metadata, omit) ==
    /\ Idle
    /\ Returns("UpdateMetadata", p, <<>>, metadata,
               UpdateMetadataOn(Store, p, metadata, omit), Store)

\* What a download remembers of the call before it.
Prev == [op |-> ret.op, p |-> ret.p, data |-> ret.data, err |-> ret.err,
         pre |-> ret.pre]

\* The stream DownloadRange(p, offset, size) returns, or its error; size -1 is
\* Download(p).
OpenOn(p, offset, size, fail) ==
    CASE backend = "local" ->
            Res("", fs, <<LocalDownloadRange(p, offset, size, Prev)>>)
      [] backend = "oss" ->
            LET r == IF size = -1 THEN OSSDownload(bucket, p, fail)
                     ELSE OSSDownloadRange(bucket, p, offset, size, fail)
            IN  IF Err(r.err) THEN r ELSE Res("", bucket, <<OSSBody(p, r.out, Prev)>>)
      [] OTHER ->
            LET r == IF size = -1 THEN MinIODownload(bucket, p)
                     ELSE MinIODownloadRange(bucket, p, offset, size)
            IN  IF Err(r.err) THEN r ELSE Res("", bucket, <<MinIOObject(p, r.out, Prev)>>)

\* Storage.Download: made between two calls, or right after a successful Upload
\* of the same path, which the stream then remembers.
Download(p, fail) ==
    /\ streams = <<>>
    /\ ret.op = "none" \/ (ret.op = "Upload" /\ ret.err = "" /\ ret.p = p)
    /\ LET r == OpenOn(p, 0, -1, fail)
       IN  /\ streams' = r.out
           /\ ret' = Ret("Download", p, <<>>, <<>>, r.err, <<>>, Held(Store, p))
    /\ UNCHANGED <<types, backend, fs, bucket>>

\* Storage.DownloadRange
DownloadRange(p, offset, size, fail) ==
    /\ Idle
    /\ LET r == OpenOn(p, offset, size, fail)
       IN  /\ streams' = r.out
           /\ ret' = Ret("DownloadRange", p, <<>>, Range(offset, size), r.err, <<>>,
                         Held(Store, p))
    /\ UNCHANGED <<types, backend, fs, bucket>>

\* The producer goroutine of stream i opens its file.
ProdOpen(i) ==
    /\ streams[i].pc = "open"
    /\ streams' = [streams EXCEPT ![i] = ProducerOpen(@, fs)]
    /\ UNCHANGED <<types, backend, fs, bucket, ret>>

\* The producer goroutine of stream i reads the file and writes to the pipe.
ProdCopy(i) ==
    /\ streams[i].pc = "copy"
    /\ CanWrite(streams[i])
    /\ streams' = [streams EXCEPT ![i] = ProducerCopy(@, fs)]
    /\ UNCHANGED <<types, backend, fs, bucket, ret>>

\* The producer's pending Write returns io.ErrClosedPipe: the reader was closed.
ProdUnblock(i) ==
    /\ streams[i].pc = "copy"
    /\ streams[i].pend # <<>>
    /\ streams[i].closed
    /\ streams' = [streams EXCEPT ![i] = WriteToClosed(@)]
    /\ UNCHANGED <<types, backend, fs, bucket, ret>>

\* The consumer reads stream i with a buffer of n bytes; the Read blocks while
\* nothing is pending and the producing side has not ended.
Read(i, n) ==
    /\ ~streams[i].closed /\ ~streams[i].lost /\ streams[i].end = ""
    /\ LET s == Fetched(streams[i], bucket)
       IN  /\ s.pend # <<>> \/ s.werr # ""
           /\ streams' = [streams EXCEPT ![i] = ReadStream(s, n)]
    /\ UNCHANGED <<types, backend, fs, bucket, ret>>

\* The consumer closes stream i.
Close(i) ==
    /\ ~streams[i].closed /\ ~streams[i].lost
    /\ streams' = [streams EXCEPT ![i].closed = TRUE]
    /\ UNCHANGED <<types, backend, fs, bucket, ret>>

\* The caller drops the result it holds and the streams that are finished.
Resume ==
    /\ ret.op # "none"
    /\ \A i \in DOMAIN streams : Finished(streams[i])
    /\ ret' = NoRet
    /\ streams' = <<>>
    /\ UNCHANGED <<types, backend, fs, bucket>>

(***************************************************************************)
(* The batch calls                                                         *)
(***************************************************************************)

\* One entry of the files map of BatchUpload.
File(p, data) == [p |-> p, data |-> data]

\* The loop of BatchUpload from entry i on, the entries in the order the range over
\* the map visits them. failAt: the entry whose remote call fails (0: none). The
\* value returned with the error is the index of the entry that failed (0: none).
RECURSIVE BatchUploadFrom(_, _, _, _)
\* The loop going on to the next entry whatever Upload returned.
BatchUploadGoOn(r, files, i, failAt) ==
    BatchUploadFrom(r.store, files, i + 1, failAt)

\* if err := s.Upload(...); err != nil { return err }, r being what Upload did.
BatchUploadAfter(r, files, i, failAt) ==
    IF Err(r.err) THEN Res(r.err, r.store, i)
    ELSE BatchUploadFrom(r.store, files, i + 1, failAt)

BatchUploadFrom(st, files, i, failAt) ==
    IF i > Len(files) THEN Res("", st, 0)
    ELSE BatchUploadAfter(
             UploadOn(st, files[i].p, files[i].data, IF failAt = i THEN 1 ELSE 0),
             files, i, failAt)

\* LocalStorage.BatchUpload, OSSStorage.BatchUpload, MinIOStorage.BatchUpload
BatchUploadOn(st, files, failAt) == BatchUploadFrom(st, files, 1, failAt)

\* The loop of BatchDelete from entry i on.
RECURSIVE BatchDeleteFrom(_, _, _, _)
\* if err := s.Delete(...); err != nil { return err }, r being what Delete did.
BatchDeleteAfter(r, filePaths, i, failAt) ==
    IF Err(r.err) THEN Res(r.err, r.store, i)
    ELSE BatchDeleteFrom(r.store, filePaths, i + 1, failAt)

BatchDeleteFrom(st, filePaths, i, failAt) ==
    IF i > Len(filePaths) THEN Res("", st, 0)
    ELSE BatchDeleteAfter(DeleteOn(st, filePaths[i], IF failAt = i THEN 1 ELSE 0),
                          filePaths, i, failAt)

\* LocalStorage.BatchDelete, OSSStorage.BatchDelete, MinIOStorage.BatchDelete
BatchDeleteOn(st, filePaths, failAt) == BatchDeleteFrom(st, filePaths, 1, failAt)

\* The streams of the results map: the indexes, in the order of opening, of the
\* streams the map still refers to.
Referred(results) == {results[k] : k \in DOMAIN results}

\* The streams opened by a BatchDownload when it returns, from the j-th on: a stream
\* the map refers to no more (its entry was overwritten) is lost, nothing can close
\* it; the streams of the map are closed when the call fails (closing).
RECURSIVE Released(_, _, _, _)
Released(opened, results, j, closing) ==
    IF j > Len(opened) THEN <<>>
    ELSE << IF j \notin Referred(results) THEN [opened[j] EXCEPT !.lost = TRUE]
            ELSE IF closing THEN [opened[j] EXCEPT !.closed = TRUE]
            ELSE opened[j] >> \o Released(opened, results, j + 1, closing)

\* What BatchDownload returns: its error, its map (path -> index of the stream among
\* those opened), the entry that failed, and the streams it opened.
Opened(err, results, k, opened) ==
    [err |-> err, results |-> results, k |-> k, streams |-> opened]

\* The loop of BatchDownload from entry i on.
RECURSIVE BatchDownloadFrom(_, _, _, _, _)
\* What the loop does with r, the result of Download for entry i.
BatchDownloadAfter(r, filePaths, i, opened, results, failAt) ==
    IF Err(r.err)
    THEN Opened(r.err, <<>>, i, Released(opened, results, 1, TRUE))
    ELSE BatchDownloadFrom(filePaths, i + 1, opened \o r.out,
                           With(results, filePaths[i], Len(opened) + 1), failAt)

BatchDownloadFrom(filePaths, i, opened, results, failAt) ==
    IF i > Len(filePaths)
    THEN Opened("", results, 0, Released(opened, results, 1, FALSE))
    ELSE BatchDownloadAfter(OpenOn(filePaths[i], 0, -1, IF failAt = i THEN 1 ELSE 0),
                            filePaths, i, opened, results, failAt)

\* LocalStorage.BatchDownload, OSSStorage.BatchDownload, MinIOStorage.BatchDownload
BatchDownloadOn(filePaths, failAt) ==
    BatchDownloadFrom(filePaths, 1, <<>>, <<>>, failAt)

\* The entries whose remote call can be made to fail.
FailAts(n) == IF backend = "local" THEN {0} ELSE 0 .. n

\* A batch call returns r: the record of the call keeps, as q, the entry that
\* failed.
Applied(op, entries, r) ==
    Returns(op, entries, r.out, <<>>, Res(r.err, r.store, <<>>), Store)

\* Storage.BatchUpload
BatchUpload(files, failAt) ==
    /\ Idle
    /\ Applied("BatchUpload", files, BatchUploadOn(Store, files, failAt))

\* Storage.BatchDelete
BatchDelete(filePaths, failAt) ==
    /\ Idle
    /\ Applied("BatchDelete", filePaths, BatchDeleteOn(Store, filePaths, failAt))

\* BatchDownload returns r: the caller holds the streams it opened.
Handed(filePaths, r) ==
    /\ streams' = r.streams
    /\ ret' = Ret("BatchDownload", filePaths, r.k, <<>>, r.err, r.results, Store)
    /\ UNCHANGED <<types, backend, fs, bucket>>

\* Storage.BatchDownload
BatchDownload(filePaths, failAt) ==
    /\ Idle
    /\ Handed(filePaths, BatchDownloadOn(filePaths, failAt))

\* Types.GetStorage, called at most MaxCalls times on one Types value.
GetStorage(opts, built) ==
    /\ ret.op = "none" \/ (ret.op = "GetStorage" /\ ret.q < MaxCalls)
    /\ LET r == GetStorageOn(types, opts, built)
       IN  /\ types' = r.types
           /\ ret' = Ret("GetStorage", opts, IF ret.op = "none" THEN 1 ELSE ret.q + 1,
                         <<>>, "", [path |-> r.path, storage |-> r.storage,
                                    config |-> r.config, opts |-> r.opts,
                                    made |-> r.made, built |-> built], types)
    /\ UNCHANGED <<backend, fs, bucket, streams>>

Offsets == 0 .. 3
Sizes == 0 .. 3

\* A new instance of one of the three backends over an empty store.
Init ==
    /\ types = Types("", "", 0, LocalStorageConfig(Base), NoConfig, NoConfig)
    /\ backend \in Backends
    /\ fs = (<<".">> :> DirNode) @@ (Base :> DirNode)
    /\ bucket = << >>
    /\ streams = <<>>
    /\ ret = NoRet

Next ==
    \/ \E p \in Paths, data \in Contents, fail \in FailsOf(2) : Upload(p, data, fail)
    \/ \E p \in Paths, fail \in FailsOf(1) : Delete(p, fail)
    \/ \E p, q \in Paths, fail \in FailsOf(2) : Rename(p, q, fail)
    \/ \E p, q \in Paths, fail \in FailsOf(1) : Copy(p, q, fail)
    \/ \E p \in Paths, fail \in FailsOf(2) : CreateDir(p, fail)
    \/ \E p \in Paths, fail \in FailsOf(2) : DeleteDir(p, fail)
    \/ \E p \in Paths, fail \in FailsOf(1) : ListDir(p, fail)
    \/ \E p \in Paths, fail \in FailsOf(1) : GetMetadata(p, fail)
    \/ \E p \in Paths, t \in ModTimes, omit \in BOOLEAN :
          UpdateMetadata(p, FileMetadata(<<>>, 0, t, FALSE), omit)
    \/ \E p \in Paths, fail \in FailsOf(1) : Download(p, fail)
    \/ \E p \in Paths, o \in Offsets, n \in Sizes, fail \in FailsOf(1) :
          DownloadRange(p, o, n, fail)
    \/ \E i \in DOMAIN streams : ProdOpen(i)
    \/ \E i \in DOMAIN streams : ProdCopy(i)
    \/ \E i \in DOMAIN streams : ProdUnblock(i)
    \/ \E i \in DOMAIN streams, n \in ReadSizes : Read(i, n)
    \/ \E i \in DOMAIN streams : Close(i)
    \/ Resume

Spec == Init /\ [][Next]_vars

(***************************************************************************)
(* The batch calls on an instance (specification SpecBatch)                *)
(***************************************************************************)

\* The paths of a batch: a directory name, a file below it, and the same file
\* written with a trailing separator.
BatchPaths == { <<"a">>, <<"a", "/", "b">>, <<"a", "/", "b", "/">> }

\* The sequences over S of at most n elements.
SeqsUpTo(S, n) == UNION {[1 .. m -> S] : m \in 0 .. n}

\* The files maps of BatchUpload, each in the orders a range can visit it: the
\* keys of a map are distinct strings.
FileMaps ==
    {files \in SeqsUpTo({File(p, data) : p \in BatchPaths, data \in Contents}, MaxBatch) :
        \A i, j \in DOMAIN files : i # j => files[i].p # files[j].p}

\* The path lists of BatchDelete and BatchDownload.
PathLists == SeqsUpTo(BatchPaths, MaxBatch)

NextBatch ==
    \/ \E files \in FileMaps : \E failAt \in FailAts(Len(files)) :
          BatchUpload(files, failAt)
    \/ \E filePaths \in PathLists : \E failAt \in FailAts(Len(filePaths)) :
          BatchDelete(filePaths, failAt)
    \/ \E filePaths \in PathLists : \E failAt \in FailAts(Len(filePaths)) :
          BatchDownload(filePaths, failAt)
    \/ \E i \in DOMAIN streams : ProdOpen(i)
    \/ \E i \in DOMAIN streams : ProdCopy(i)
    \/ \E i \in DOMAIN streams : ProdUnblock(i)
    \/ \E i \in DOMAIN streams : Close(i)
    \/ Resume

SpecBatch == Init /\ [][NextBatch]_vars

(***************************************************************************)
(* The facade (specification SpecFacade)                                   *)
(***************************************************************************)

\* A complete flat-store configuration with one required field emptied.
Lacking(field) ==
    [FullConfig EXCEPT ![field] = IF field = "BaseDir" THEN <<>> ELSE ""]

FlatConfigs ==
    {FullConfig} \cup
    {Lacking(f) : f \in {"Endpoint", "AccessKeyID", "AccessKeySecret", "Bucket", "BaseDir"}}

\* The options a caller passes: one of each kind.
Options ==
    {StorageOption("WithLocalConfig", LocalStorageConfig(Base)),
     StorageOption("WithMinIOConfig", FullConfig),
     StorageOption("WithOSSConfig", FullConfig),
     StorageOption("WithMode", OSS),
     StorageOption("WithAssignMode", MinIO),
     StorageOption("WithMaxSize", 1)}

\* A Types value as a caller builds or loads it: any modes with the per-mode
\* fields all empty or all set, or a flat-store mode whose configuration may lack
\* one required field.
InitFacade ==
    /\ \/ \E mode \in Modes, assign \in Modes :
             types \in {Types(mode, assign, 0, LocalStorageConfig(<<>>), NoConfig, NoConfig),
                        Types(mode, assign, 0, LocalStorageConfig(Base), FullConfig,
                              FullConfig)}
       \/ \E c \in FlatConfigs :
             types \in {Types("", MinIO, 0, LocalStorageConfig(Base), c, FullConfig),
                        Types(OSS, "", 0, LocalStorageConfig(Base), FullConfig, c)}
    /\ backend = "none"
    /\ fs = <<>>
    /\ bucket = <<>>
    /\ streams = <<>>
    /\ ret = NoRet

NextFacade ==
    \E opts \in SeqsUpTo(Options, MaxOpts), built \in BOOLEAN : GetStorage(opts, built)

SpecFacade == InitFacade /\ [][NextFacade]_vars

(***************************************************************************)
(* Listing a directory of many objects (specification SpecList)            *)
(***************************************************************************)

Digits == <<"0", "1", "2", "3", "4", "5", "6", "7", "8", "9">>

\* The logical path of the i-th file uploaded below directory "a".
NumberedPath(i) ==
    <<"a", "/", Digits[(i \div 100) + 1], Digits[((i \div 10) % 10) + 1],
      Digits[(i % 10) + 1]>>

\* The bucket after n uploads below directory "a".
Filled(n) ==
    [k \in {Join(Base, NumberedPath(i)) : i \in 1 .. n} |-> <<1, 2, 3>>]

\* How many objects the directory holds: one fewer than a page of the service, a
\* full page, and more than a page.
ListCounts == {OSSMaxKeys - 1, OSSMaxKeys, OSSMaxKeys + 1}

\* An OSS instance whose bucket holds the uploaded files.
InitList ==
    /\ types = Types("", "", 0, LocalStorageConfig(Base), NoConfig, NoConfig)
    /\ backend = "oss"
    /\ fs = <<>>
    /\ bucket \in {Filled(n) : n \in ListCounts}
    /\ streams = <<>>
    /\ ret = NoRet

NextList ==
    \/ \E p \in Paths, fail \in FailsOf(2) : CreateDir(p, fail)
    \/ \E p \in Paths, fail \in FailsOf(2) : DeleteDir(p, fail)
    \/ \E p \in Paths, fail \in FailsOf(1) : ListDir(p, fail)
    \/ Resume

SpecList == InitList /\ [][NextList]_vars

(***************************************************************************)
(* The pagination loops of OSSStorage, one page a step (specification      *)
(* SpecPage).  While a loop runs, ret holds its locals: q the marker, data *)
(* the markers of the pages requested so far, out the entries collected.   *)
(***************************************************************************)

\* The most pages one call may request.
MaxPages == 3

\* How many objects the directory holds: none, one, two, a full page of the
\* service, more than a page.
PageCounts == {0, 1, 2, OSSMaxKeys, OSSMaxKeys + 1}

InitPage ==
    /\ types = Types("", "", 0, LocalStorageConfig(Base), NoConfig, NoConfig)
    /\ backend = "oss"
    /\ fs = <<>>
    /\ bucket \in {Filled(n) : n \in PageCounts}
    /\ streams = <<>>
    /\ ret = NoRet

\* OSSStorage.ListDir up to its loop.
ListDirBegin(p) ==
    /\ Idle
    /\ ret' = Ret("ListDirLoop", p, <<>>, <<>>, "", <<>>, Store)
    /\ UNCHANGED <<types, backend, fs, bucket, streams>>

\* What one turn of the loop of OSSStorage.ListDir makes of the locals, given the
\* answer of the service.
ListDirTurn(fullKey, objectListing, fail) ==
    IF fail = 1
    THEN [ret EXCEPT !.op = "ListDir", !.err = "Remote", !.out = <<>>,
                     !.data = Append(@, ret.q)]
    ELSE [ret EXCEPT !.op = IF LastBatch(objectListing.Objects)
                            THEN "ListDir" ELSE "ListDirLoop",
                     !.q = IF LastBatch(objectListing.Objects)
                           THEN @ ELSE objectListing.NextMarker,
                     !.out = @ \o OSSPageEntries(bucket, objectListing.Objects, fullKey),
                     !.data = Append(@, ret.q)]

\* One turn of the loop of OSSStorage.ListDir: a page is requested at the marker.
ListDirPage ==
    /\ ret.op = "ListDirLoop"
    /\ Len(ret.data) < MaxPages
    /\ \E fullKey \in {Join(Base, ensureOSSDirPath(ret.p))} :
          \E objectListing \in {OSSListObjects(bucket, fullKey, ret.q)} :
             \E fail \in FailsOf(1) :
                ret' = ListDirTurn(fullKey, objectListing, fail)
    /\ UNCHANGED <<types, backend, fs, bucket, streams>>

\* OSSStorage.DeleteDir up to its loop.
DeleteDirBegin(p) ==
    /\ Idle
    /\ ret' = Ret("DeleteDirLoop", p, <<>>, <<>>, "", <<>>, Store)
    /\ UNCHANGED <<types, backend, fs, bucket, streams>>

\* The keys of a page that the loop of OSSStorage.DeleteDir hands to Delete.
Doomed(objects, fullKey) ==
    SelectSeq(objects, LAMBDA k : HasPrefix(k, fullKey)
                                  /\ ~isDirectoryPlaceholder(k, fullKey))

\* One turn of the loop of OSSStorage.DeleteDir: a page is requested at the marker
\* and every key of it is handed to Delete.
DeleteDirTurn(fullKey, objectListing, doomed, fail) ==
    IF fail = 1 \/ (fail = 2 /\ doomed # <<>>)
    THEN /\ ret' = [ret EXCEPT !.op = "DeleteDir", !.err = "Remote",
                               !.data = Append(@, ret.q)]
         /\ bucket' = bucket
    ELSE /\ ret' = [ret EXCEPT !.op = IF LastBatch(objectListing.Objects)
                                      THEN "DeleteDir" ELSE "DeleteDirLoop",
                               !.q = IF LastBatch(objectListing.Objects)
                                     THEN @ ELSE objectListing.NextMarker,
                               !.data = Append(@, ret.q)]
         /\ \E left \in {DOMAIN bucket \ {Join(Base, doomed[i]) : i \in DOMAIN doomed}} :
               bucket' = [k \in left |-> bucket[k]]

DeleteDirPage ==
    /\ ret.op = "DeleteDirLoop"
    /\ Len(ret.data) < MaxPages
    /\ \E fullKey \in {Join(Base, ensureOSSDirPath(ret.p))} :
          \E objectListing \in {OSSListObjects(bucket, fullKey, ret.q)} :
             \E doomed \in {Doomed(objectListing.Objects, fullKey)} :
                \E fail \in FailsOf(2) :
                   DeleteDirTurn(fullKey, objectListing, doomed, fail)
    /\ UNCHANGED <<types, backend, fs, streams>>

\* The caller lets go of the result of a call that returned.
PageResume ==
    /\ ret.op \in {"ListDir", "DeleteDir"}
    /\ Resume

NextPage ==
    \/ \E p \in Paths : ListDirBegin(p)
    \/ ListDirPage
    \/ \E p \in Paths : DeleteDirBegin(p)
    \/ DeleteDirPage
    \/ PageResume

\* A call that entered its loop goes on running: nothing but the answer of the
\* service holds a turn back.
SpecPage ==
    /\ InitPage
    /\ [][NextPage]_vars
    /\ WF_vars(ListDirPage)
    /\ WF_vars(DeleteDirPage)

(***************************************************************************)
(* Download streams of the local store (specification SpecStream): the     *)
(* producer goroutine runs beside the caller, a Read of the file may fail, *)
(* and the caller may make another call on the path before it reads.       *)
(***************************************************************************)

\* The offsets and sizes of the ranged downloads: file.Seek fails on a negative
\* offset.
StreamOffsets == {-1, 0, 1}
StreamSizes == {2}

\* A local instance whose tree holds directories "a" and "ab" and file "a/b".
InitStream ==
    /\ types = Types("", "", 0, LocalStorageConfig(Base), NoConfig, NoConfig)
    /\ backend = "local"
    /\ fs = (<<".">> :> DirNode) @@ (Base :> DirNode)
               @@ (Join(Base, <<"a">>) :> DirNode)
               @@ (Join(Base, <<"a", "b">>) :> DirNode)
               @@ (Join(Base, <<"a", "/", "b">>) :> FileNode(<<1, 2, 3>>))
    /\ bucket = << >>
    /\ streams = <<>>
    /\ ret = NoRet

\* A Read of the file by the producer goroutine of stream i fails.
ProdFail(i) ==
    /\ streams[i].pc = "copy"
    /\ CanWrite(streams[i])
    /\ streams' = [streams EXCEPT ![i] = ReadError(@)]
    /\ UNCHANGED <<types, backend, fs, bucket, ret>>

\* The caller of Download of a file makes one more call on the path before it
\* reads the stream, here before the producer goroutine has opened the file (once
\* the file is open the goroutine reads the open file, not the path). The result
\* kept is that of Download; data records the call made.
Meanwhile(op, r) ==
    /\ ret.op = "Download" /\ ret.data = <<>> /\ ret.pre # <<>>
    /\ Len(streams) = 1
    /\ streams[1].pc = "open" /\ ~streams[1].closed
    /\ fs' = r.store
    /\ ret' = [ret EXCEPT !.data = <<op, r.err>>]
    /\ UNCHANGED <<types, backend, bucket, streams>>

DeleteMeanwhile == Meanwhile("Delete", LocalDelete(fs, ret.p))

RenameMeanwhile(q) == Meanwhile("Rename", LocalRename(fs, ret.p, q))

UploadMeanwhile(data) == Meanwhile("Upload", LocalUpload(fs, ret.p, data, 0))

NextStream ==
    \/ \E p \in Paths : Download(p, 0)
    \/ \E p \in Paths, o \in StreamOffsets, n \in StreamSizes : DownloadRange(p, o, n, 0)
    \/ \E i \in DOMAIN streams : ProdOpen(i)
    \/ \E i \in DOMAIN streams : ProdCopy(i)
    \/ \E i \in DOMAIN streams : ProdFail(i)
    \/ \E i \in DOMAIN streams : ProdUnblock(i)
    \/ \E i \in DOMAIN streams, n \in ReadSizes : Read(i, n)
    \/ \E i \in DOMAIN streams : Close(i)
    \/ DeleteMeanwhile
    \/ \E q \in Paths : RenameMeanwhile(q)
    \/ \E data \in Contents : UploadMeanwhile(data)
    \/ Resume

\* The producer goroutine is scheduled: a step it can take it takes.
SpecStream ==
    /\ InitStream
    /\ [][NextStream]_vars
    /\ WF_vars(\E i \in DOMAIN streams : ProdOpen(i))
    /\ WF_vars(\E i \in DOMAIN streams : ProdCopy(i))
    /\ WF_vars(\E i \in DOMAIN streams : ProdUnblock(i))

(***************************************************************************)
(* Properties of the single-item operations (specification Spec)           *)
(***************************************************************************)

\* C1. Round trip: a stream that Download(p) returned right after Upload(p, b)
\* succeeded, read to its end, has yielded exactly b and then end-of-stream
\* without error, on each backend and whatever p held before.
C1_RoundTrip ==
    \A i \in DOMAIN streams :
        (/\ streams[i].prev.op = "Upload" /\ streams[i].prev.err = ""
         /\ streams[i].prev.p = streams[i].path
         /\ streams[i].end # "")
            => (streams[i].end = "EOF" /\ streams[i].recv = streams[i].prev.data)

\* C1: a download after an upload that replaced other content was read to the end.
C1_Witness ==
    \E i \in DOMAIN streams :
        /\ streams[i].prev.op = "Upload"
        /\ streams[i].prev.pre # <<>>
        /\ streams[i].prev.pre[1] # streams[i].prev.data
        /\ streams[i].prev.data # <<>>
        /\ streams[i].end = "EOF"

\* C2. Rename semantics as claimed: after Rename(old, new) succeeded on a path
\* old that held content c, GetMetadata(old) fails with NotFound and new holds
\* exactly c.
C2_RenameAsClaimed ==
    (ret.op = "Rename" /\ ret.err = "" /\ Held(ret.pre, ret.p) # <<>>)
        => /\ GetMetadataOn(Store, ret.p, 0).err = "NotFound"
           /\ Held(Store, ret.q) = Held(ret.pre, ret.p)

\* C3. Delete then absent: after Delete(p) succeeded, GetMetadata(p) fails with
\* NotFound and the store holds nothing at p's native path.
C3_DeleteThenAbsent ==
    (ret.op = "Delete" /\ ret.err = "")
        => /\ GetMetadataOn(Store, ret.p, 0).err = "NotFound"
           /\ Join(Base, ret.p) \notin DOMAIN Store

\* C3: a Delete of a path that held a file succeeded.
C3_Witness == ret.op = "Delete" /\ ret.err = "" /\ Held(ret.pre, ret.p) # <<>>

\* C4. Range correctness as claimed: for an object c at p and offset + size <=
\* Len(c), the stream of DownloadRange(p, offset, size), read to its end, has
\* yielded exactly the bytes offset .. offset + size - 1 of c and then
\* end-of-stream (nothing when size = 0).
C4_RangeAsClaimed ==
    \A i \in DOMAIN streams :
        (/\ ret.op = "DownloadRange" /\ ret.err = ""
         /\ ret.pre # <<>>
         /\ ret.data.off + ret.data.size <= Len(ret.pre[1])
         /\ streams[i].end # "")
            => /\ streams[i].end = "EOF"
               /\ streams[i].recv =
                      SubSeq(ret.pre[1], ret.data.off + 1, ret.data.off + ret.data.size)

\* The logical paths that hold a file in the store.
FilesHeld == {p \in Paths : Held(Store, p) # <<>>}

\* Every file or object of the store lies below directory d.
AllBelow(d) ==
    \A k \in DOMAIN Store :
        (backend = "local" => ~Store[k].dir) => HasPrefix(k, Join(Base, d) \o <<"/">>)

\* C8. Listing after upload as claimed: when the files of the store are files
\* uploaded below d, ListDir(d) returns one entry per file and nothing else, each
\* with isDir false, the content's length as size and the file's logical path as
\* name.
C8_ListingAsClaimed ==
    (ret.op = "ListDir" /\ ret.err = "" /\ AllBelow(ret.p) /\ FilesHeld # {})
        => /\ Len(ret.out) = Cardinality({Join(Base, p) : p \in FilesHeld})
           /\ \A i \in DOMAIN ret.out :
                 /\ ~ret.out[i].isDir
                 /\ \E p \in FilesHeld :
                       /\ ret.out[i].name \in {p, Clean(p)}
                       /\ ret.out[i].size = Len(Held(Store, p)[1])

\* C9. Directory deletion as claimed: after DeleteDir(d) succeeded, ListDir(d)
\* returns an empty list without error and no file below d is left.
C9_DeleteDirAsClaimed ==
    (ret.op = "DeleteDir" /\ ret.err = "")
        => /\ ListDirOn(Store, ret.p, 0).err = ""
           /\ ListDirOn(Store, ret.p, 0).out = <<>>
           /\ \A p \in FilesHeld : ~HasPrefix(Join(Base, p), Join(Base, ret.p) \o <<"/">>)

(***************************************************************************)
(* Properties of listing many objects (specification SpecList)             *)
(***************************************************************************)

\* The keys of the objects below directory d that are not d's placeholder.
ObjectsBelow(b, d) ==
    {k \in DOMAIN b : /\ HasPrefix(k, Join(Base, d) \o <<"/">>)
                      /\ k # Join(Base, d) \o <<"/">>}

\* C5. Listing pagination as claimed: when a directory's prefix holds more objects
\* than one page of the service, ListDir returns exactly one entry for every
\* object below the prefix that is not a placeholder, none missing and none twice.
C5_PaginationAsClaimed ==
    (/\ ret.op = "ListDir" /\ ret.err = ""
     /\ Cardinality(ObjectsBelow(bucket, ret.p)) > OSSMaxKeys)
        => /\ Len(ret.out) = Cardinality(ObjectsBelow(bucket, ret.p))
           /\ {Join(Base, ret.p) \o ret.out[i].name : i \in DOMAIN ret.out}
                 = ObjectsBelow(bucket, ret.p)

(***************************************************************************)
(* Properties of the batch calls (specification SpecBatch)                 *)
(***************************************************************************)

\* Entries i and j of a batch name the same native path.
SameNative(p, q) == Join(Base, p) = Join(Base, q)

\* The last entry a batch call that failed at entry k (0: none failed) applied.
LastApplied(n, k) == IF k = 0 THEN n ELSE k - 1

C7_NoOpenStreamAsClaimed ==
    (ret.op = "BatchDownload" /\ ret.err # "")
        => /\ \A i \in DOMAIN streams : streams[i].closed
           /\ ret.out = <<>>

(***************************************************************************)
(* Properties of the facade (specification SpecFacade)                     *)
(***************************************************************************)

\* The backend the switch of GetStorage takes for a mode: its default is local.
Selected(mode) == IF mode \in {MinIO, OSS} THEN mode ELSE Local

\* A required field of the configuration of backend sel in s is empty.
RequiredEmpty(s, sel) ==
    CASE sel = MinIO ->
            \/ s.Minio.BaseDir = <<>>
            \/ \E f \in {"Endpoint", "AccessKeyID", "AccessKeySecret", "Bucket"} :
                   s.Minio[f] = ""
      [] sel = OSS ->
            \/ s.Oss.BaseDir = <<>>
            \/ \E f \in {"Endpoint", "AccessKeyID", "AccessKeySecret", "Bucket"} :
                   s.Oss[f] = ""
      [] OTHER -> s.Local.BasePath = <<>>

\* The base directory of the configuration of backend sel in s.
BaseOf(s, sel) ==
    CASE sel = MinIO -> s.Minio.BaseDir
      [] sel = OSS -> s.Oss.BaseDir
      [] OTHER -> s.Local.BasePath

\* The Types values that differ from s in the configurations of the backends
\* other than sel only.
Elsewhere(s, sel) ==
    {[s EXCEPT !.Local = IF sel = Local THEN s.Local ELSE l,
               !.Minio = IF sel = MinIO THEN s.Minio ELSE m,
               !.Oss = IF sel = OSS THEN s.Oss ELSE o] :
        l \in {LocalStorageConfig(<<>>), LocalStorageConfig(Base)},
        m \in {NoConfig, FullConfig}, o \in {NoConfig, FullConfig}}

\* C11. Facade validation: GetStorage returns an instance only if every required
\* field of the selected mode's configuration is non-empty; if one is empty it
\* returns the empty path and no instance and calls no constructor; the
\* configurations of the other modes do not change what it returns; and the path
\* returned with an instance is the selected configuration's base directory.
C11_FacadeValidation ==
    ret.op = "GetStorage" =>
        /\ ret.out.storage # "nil" =>
              /\ ~RequiredEmpty(types, Selected(types.AssignMode))
              /\ ret.out.path = BaseOf(types, Selected(types.AssignMode))
        /\ RequiredEmpty(types, Selected(types.AssignMode)) =>
              /\ ret.out.path = <<>>
              /\ ret.out.storage = "nil"
              /\ ret.out.made = ""
        /\ \A t \in Elsewhere(types, Selected(types.AssignMode)) :
              /\ GetStorageOn(t, <<>>, ret.out.built).path = ret.out.path
              /\ GetStorageOn(t, <<>>, ret.out.built).storage = ret.out.storage
              /\ GetStorageOn(t, <<>>, ret.out.built).made = ret.out.made

\* C11: GetStorage refused a flat-store configuration that lacks its bucket only,
\* while the local configuration is complete.
C11_Witness ==
    /\ ret.op = "GetStorage" /\ types.AssignMode \in {MinIO, OSS}
    /\ ret.out.storage = "nil" /\ ret.out.made = ""
    /\ \/ types.AssignMode = MinIO /\ types.Minio = Lacking("Bucket")
       \/ types.AssignMode = OSS /\ types.Oss = Lacking("Bucket")
    /\ types.Local.BasePath # <<>>

\* The mode GetStorage is to select on a Types value once the options are
\* applied: the assigned mode when it is set, the mode otherwise.
Chosen(s) == IF s.AssignMode # "" THEN s.AssignMode ELSE s.Mode

\* The constructor of a backend.
ConstructorOf(sel) ==
    CASE sel = MinIO -> "NewMinIOStorage"
      [] sel = OSS -> "NewOSSStorage"
      [] OTHER -> "NewLocalStorage"

\* C12. Mode selection: with the options applied, the backend GetStorage validates
\* and constructs is the one for the assigned mode when it is set, whatever the
\* mode is, and the one for the mode when the assigned mode is unset.
C12_ModeSelection ==
    ret.op = "GetStorage" =>
        /\ ret.out.made \in
              {"", ConstructorOf(Selected(Chosen(ApplyOptions(ret.p, ret.pre))))}
        /\ ret.out.storage \in
              {"nil", Selected(Chosen(ApplyOptions(ret.p, ret.pre)))}
        /\ (ret.out.made = "") <=>
              RequiredEmpty(ApplyOptions(ret.p, ret.pre),
                            Selected(Chosen(ApplyOptions(ret.p, ret.pre))))

\* C12: with the options applied the assigned mode was unset and the mode oss, and
\* the OSS constructor was called and gave an instance.
C12_Witness ==
    /\ ret.op = "GetStorage"
    /\ ApplyOptions(ret.p, ret.pre).AssignMode = ""
    /\ ApplyOptions(ret.p, ret.pre).Mode = OSS
    /\ ret.out.made = "NewOSSStorage"
    /\ ret.out.storage = OSS

\* C10. Facade default as claimed: GetStorage without options on a Types value with
\* no mode, no assigned mode and empty per-mode fields returns a local instance
\* and the temporary directory as its base path.
C10_DefaultAsClaimed ==
    (/\ ret.op = "GetStorage" /\ ret.p = <<>>
     /\ ret.pre = Types("", "", 0, LocalStorageConfig(<<>>), NoConfig, NoConfig))
        => /\ ret.out.storage = Local
           /\ ret.out.path = TempDir
           /\ ret.out.path # <<>>

(***************************************************************************)
(* Properties of the metadata calls (specification Spec)                   *)
(***************************************************************************)

\* C13. Filesystem UpdateMetadata as claimed: for an existing file p,
\* UpdateMetadata(p, m) with a non-zero m.ModTime makes it the file's modification
\* time, which a following GetMetadata(p) reports, and with the zero time leaves
\* the modification time as it was; nothing else of the tree changes.
C13_UpdateMetadataAsClaimed ==
    (/\ ret.op = "UpdateMetadata" /\ backend = "local" /\ ret.err = ""
     /\ IsFileAt(ret.pre, Join(Base, ret.p)))
        => /\ ret.data.modTime # ZeroTime =>
                 GetMetadataOn(Store, ret.p, 0).out.modTime = ret.data.modTime
           /\ ret.data.modTime = ZeroTime =>
                 Store[Join(Base, ret.p)].mtime = ret.pre[Join(Base, ret.p)].mtime
           /\ DOMAIN Store = DOMAIN ret.pre
           /\ \A k \in DOMAIN Store :
                 /\ Store[k].data = ret.pre[k].data
                 /\ Store[k].dir = ret.pre[k].dir
                 /\ k # Join(Base, ret.p) => Store[k] = ret.pre[k]

\* C14. Flat-store UpdateMetadata is unsupported: on OSS and MinIO,
\* UpdateMetadata(p, m) returns an error for every p, present or not, and every m,
\* and the bucket is as it was (the handlers make no remote call: they have no
\* point of failure and do not read the bucket).
C14_UpdateMetadataUnsupported ==
    (ret.op = "UpdateMetadata" /\ backend # "local")
        => /\ ret.err # ""
           /\ Store = ret.pre
           /\ \A b \in {<<>>, Store} :
                 UpdateMetadataOn(b, ret.p, ret.data, TRUE).err = ret.err

\* C14: UpdateMetadata was called on OSS for an object that exists and on MinIO
\* for a key that does not.
C14_Witness ==
    /\ ret.op = "UpdateMetadata" /\ ret.err # ""
    /\ \/ backend = "oss" /\ Join(Base, ret.p) \in DOMAIN bucket
       \/ backend = "minio" /\ Join(Base, ret.p) \notin DOMAIN bucket
    /\ ret.data.modTime # ZeroTime

(***************************************************************************)
(* Properties of downloads of the filesystem backend (specification Spec)  *)
(***************************************************************************)

\* C15. Download of an absent file as claimed: on the filesystem backend,
\* Download(p) and DownloadRange(p, offset, size) for a path p that does not exist
\* return the error NotFound and hand no stream to the caller.
C15_AbsentDownloadAsClaimed ==
    (/\ ret.op \in {"Download", "DownloadRange"} /\ backend = "local"
     /\ Join(Base, ret.p) \notin DOMAIN fs)
        => /\ ret.err = "NotFound"
           /\ streams = <<>>

(***************************************************************************)
(* Properties of directories and listings (specification Spec)             *)
(***************************************************************************)

\* The native keys of the entries ListDir(d) returns on store st: an entry is
\* named by what follows d's native key in the key of its object.
KeysListed(st, d) ==
    {Join(Base, d) \o ListDirOn(st, d, 0).out[i].name :
        i \in DOMAIN ListDirOn(st, d, 0).out}

\* C16. Placeholders never listed, as claimed: on a flat store, once CreateDir has
\* written a directory's placeholder object, no ListDir(d) has an entry for that
\* object, be it the placeholder of d or of a directory below d.
C16_PlaceholdersAsClaimed ==
    (/\ ret.op = "CreateDir" /\ ret.err = "" /\ backend # "local"
     /\ Join(Base, ret.p) \notin DOMAIN ret.pre)
        => \A d \in Paths : Join(Base, ret.p) \notin KeysListed(Store, d)

\* C17. Listing names are logical paths, as claimed: the name of every entry that
\* ListDir(d) returns, joined to the base, is the native path or key of an object
\* of the store at or below d, and GetMetadata of that name succeeds and reports
\* the entry's size and kind.
C17_ListingNamesAsClaimed ==
    (ret.op = "ListDir" /\ ret.err = "")
        => \A i \in DOMAIN ret.out :
              /\ Join(Base, ret.out[i].name) \in DOMAIN Store
              /\ HasPrefix(Join(Base, ret.out[i].name), Join(Base, ret.p))
              /\ GetMetadataOn(Store, ret.out[i].name, 0).err = ""
              /\ GetMetadataOn(Store, ret.out[i].name, 0).out.size = ret.out[i].size
              /\ GetMetadataOn(Store, ret.out[i].name, 0).out.isDir = ret.out[i].isDir

\* C18. CreateDir is idempotent: CreateDir(d) fails only when a remote call fails
\* or, on the filesystem, a file stands at d or above it; after it succeeded a
\* second CreateDir(d) succeeds and leaves the store as the first left it; on the
\* filesystem d and the directories above it are then directories; on a flat store
\* the placeholder is there and the second call puts nothing (a put that would
\* fail does not make it fail).
C18_CreateDirIdempotent ==
    ret.op = "CreateDir" =>
        /\ ret.err # "" =>
              IF backend = "local"
              THEN \E q \in Ancestors(Join(Base, ret.p)) : IsFileAt(ret.pre, q)
              ELSE ret.err = "Remote"
        /\ ret.err = "" =>
              /\ CreateDirOn(ret.p, 0) = Res("", Store, <<>>)
              /\ backend = "local" =>
                    \A q \in Ancestors(Join(Base, ret.p)) : IsDirAt(Store, q)
              /\ backend # "local" =>
                    /\ Join(Base, ret.p) \in DOMAIN Store
                    /\ CreateDirOn(ret.p, 2) = Res("", Store, <<>>)

\* C18: on the filesystem CreateDir made a directory and a missing directory above
\* it; or on a flat store it put a placeholder that was not there.
C18_Witness ==
    /\ ret.op = "CreateDir" /\ ret.err = ""
    /\ Join(Base, ret.p) \notin DOMAIN ret.pre
    /\ \/ backend = "oss"
       \/ backend = "local" /\ Dir(Join(Base, ret.p)) \notin DOMAIN ret.pre

\* C19. Filesystem GetMetadata: for a path p that exists, GetMetadata(p) returns
\* the name p as it was passed, the byte length of a file as size, isDir true
\* exactly for a directory and the node's modification time; for a path that does
\* not exist it returns an error and no metadata; the tree is as it was.
C19_LocalGetMetadata ==
    (ret.op = "GetMetadata" /\ backend = "local")
        => /\ fs = ret.pre
           /\ IF Join(Base, ret.p) \in DOMAIN fs
              THEN /\ ret.err = ""
                   /\ ret.out.name = ret.p
                   /\ ret.out.isDir = fs[Join(Base, ret.p)].dir
                   /\ ret.out.modTime = fs[Join(Base, ret.p)].mtime
                   /\ ~fs[Join(Base, ret.p)].dir =>
                         ret.out.size = Len(fs[Join(Base, ret.p)].data)
              ELSE ret.err # "" /\ ret.out = <<>>

\* C19: GetMetadata of a file with content, named with a trailing separator.
C19_Witness ==
    /\ ret.op = "GetMetadata" /\ backend = "local" /\ ret.err = ""
    /\ ret.p # Clean(ret.p)
    /\ ret.out.size > 0
    /\ ~ret.out.isDir

(***************************************************************************)
(* Properties of Rename on the flat stores (specification Spec)            *)
(***************************************************************************)

\* C20. Flat-store rename failure outcomes: on OSS and MinIO, for an object at
\* old, a Rename(old, new) whose copy fails returns an error and leaves the bucket
\* as it was; one whose copy succeeds and whose delete fails returns an error and
\* leaves the bucket as it was but for new, which holds old's content; whenever
\* Rename returns an error, old holds what it held.
C20_RenameFailureOutcomes ==
    (/\ ret.op = "Rename" /\ backend # "local"
     /\ Join(Base, ret.p) \in DOMAIN ret.pre)
        => /\ ret.data = <<1>> => (ret.err # "" /\ bucket = ret.pre)
           /\ ret.data = <<2>> =>
                 /\ ret.err # ""
                 /\ bucket = With(ret.pre, Join(Base, ret.q), ret.pre[Join(Base, ret.p)])
                 /\ Held(bucket, ret.q) = Held(ret.pre, ret.p)
           /\ ret.data = <<0>> => ret.err = ""
           /\ ret.err # "" => Held(bucket, ret.p) = Held(ret.pre, ret.p)

\* C20: the delete of a Rename failed after its copy replaced other content at new.
C20_Witness ==
    /\ ret.op = "Rename" /\ backend = "minio" /\ ret.data = <<2>> /\ ret.err # ""
    /\ Join(Base, ret.p) \in DOMAIN ret.pre
    /\ Join(Base, ret.q) \in DOMAIN ret.pre
    /\ ret.pre[Join(Base, ret.q)] # ret.pre[Join(Base, ret.p)]

(***************************************************************************)
(* Properties of deletion (specification Spec)                             *)
(***************************************************************************)

\* C21. Filesystem Delete and DeleteDir of an absent target, as claimed: on the
\* filesystem backend Delete(p) of a path that does not exist and DeleteDir(d) of
\* a directory that does not exist fail with NotFound and leave the tree as it
\* was.
C21_AbsentTargetAsClaimed ==
    (/\ ret.op \in {"Delete", "DeleteDir"} /\ backend = "local"
     /\ Join(Base, ret.p) \notin DOMAIN ret.pre)
        => /\ ret.err = "NotFound"
           /\ fs = ret.pre

(***************************************************************************)
(* Properties of the pagination loops (specification SpecPage)             *)
(***************************************************************************)

\* No two of the pages a call requested have the same marker.
NoPageTwice ==
    ret.op \in {"ListDirLoop", "ListDir", "DeleteDirLoop", "DeleteDir"}
        => \A i, j \in DOMAIN ret.data : ret.data[i] = ret.data[j] => i = j

\* C22. The pagination loops of ListDir and DeleteDir on OSS terminate whatever the
\* number of objects below the prefix (none, a full last page with an empty
\* continuation marker, several pages): a call that entered its loop returns, and
\* it requests no page twice.
C22_PaginationTerminates ==
    /\ []NoPageTwice
    /\ (ret.op \in {"ListDirLoop", "DeleteDirLoop"})
           ~> (ret.op \in {"ListDir", "DeleteDir"})

\* C22: ListDir returned from a directory whose objects fill exactly one page of
\* the service, the page that comes with an empty continuation marker.
C22_Witness ==
    /\ ret.op = "ListDir" /\ ret.err = "" /\ Len(ret.data) = 1
    /\ Cardinality(ObjectsBelow(bucket, ret.p)) = OSSMaxKeys
    /\ Len(ret.out) = OSSMaxKeys

(***************************************************************************)
(* Properties of the download streams of the local store (specification    *)
(* SpecStream)                                                             *)
(***************************************************************************)

\* The producer goroutine of the stream failed: it met an error of its own (not
\* the one a Write returns because the reader was closed).
ProducerFailed(s) == s.kind = "pipe" /\ s.perr \notin {"", "ClosedPipe"}

\* C23. Error propagation through the pipe: when the producer goroutine of a local
\* download fails (open, seek or read error) after it delivered n bytes, a consumer
\* that reads on gets exactly those n bytes and then that error, never a clean end
\* of stream: the deferred pw.Close() does not replace the error.
C23_ErrorPropagates ==
    \A i \in DOMAIN streams :
        (ProducerFailed(streams[i]) /\ ~streams[i].closed)
            => /\ streams[i].end \in {"", streams[i].perr}
               /\ streams[i].end # "" => Len(streams[i].recv) = streams[i].wrote

\* C23: a Read of the file failed after three bytes were delivered, and the
\* consumer has read the three bytes and then the error.
C23_Witness ==
    /\ Len(streams) = 1
    /\ streams[1].kind = "pipe" /\ streams[1].end = "IO"
    /\ streams[1].recv = <<1, 2, 3>>

\* C24. No producer is left behind an early close: once the consumer has closed the
\* stream of a local download, the producer goroutine comes to return, and with it
\* the file is closed.
C24_ProducerStops ==
    (Len(streams) = 1 /\ streams[1].kind = "pipe" /\ streams[1].closed)
        ~> (Len(streams) = 1 /\ streams[1].pc = "done" /\ ~streams[1].fd)

\* C24: the consumer closed the stream before it had read the content, and the
\* producer goroutine, whose Write then failed, has returned.
C24_Witness ==
    /\ Len(streams) = 1
    /\ streams[1].kind = "pipe" /\ streams[1].closed
    /\ streams[1].recv = <<1>> /\ streams[1].end = ""
    /\ streams[1].pc = "done" /\ streams[1].werr = "ClosedPipe" /\ ~streams[1].fd

\* What is written to an open pipe and not yet read is the pending Write.
OnePending ==
    \A i \in DOMAIN streams :
        (streams[i].kind = "pipe" /\ ~streams[i].closed)
            => streams[i].wrote = Len(streams[i].recv) + Len(streams[i].pend)

\* A Write is made only when nothing is pending, and a Read returns only when
\* bytes are pending or the producing side has ended.
WriteThenRead ==
    \A i \in DOMAIN streams \cap DOMAIN streams' :
        streams[i].kind = "pipe" =>
            /\ streams'[i].wrote > streams[i].wrote => streams[i].pend = <<>>
            /\ (streams'[i].recv # streams[i].recv \/ streams'[i].end # streams[i].end)
                   => (streams[i].pend # <<>> \/ streams[i].werr # "")

\* C25. Backpressure of the pipe of a local download: the bytes written and not yet
\* read are those of one pending Write; the producer makes no further Write until
\* the consumer has taken the pending one, and a Read of the consumer returns only
\* when bytes are pending or the producer has finished.
C25_Backpressure == []OnePending /\ [][WriteThenRead]_vars

\* C25: the consumer has taken one byte of the pending Write; the producer is
\* still in that Write.
C25_Witness ==
    /\ Len(streams) = 1
    /\ streams[1].kind = "pipe" /\ streams[1].pc = "copy"
    /\ streams[1].recv = <<1>> /\ streams[1].pend = <<2, 3>>

\* C29. The stream of a local Download as a snapshot, as claimed: whatever call on
\* the path (Delete, Rename, Upload) the caller makes after Download returned and
\* before it reads, a stream read to its end (no Read of the file failing) ends
\* cleanly and has yielded the content the path held when Download returned.
C29_SnapshotAsClaimed ==
    (/\ ret.op = "Download" /\ ret.pre # <<>>
     /\ Len(streams) = 1
     /\ streams[1].end # "" /\ streams[1].perr # "IO")
        => /\ streams[1].end = "EOF"
           /\ streams[1].recv = ret.pre[1]

(***************************************************************************)
(* Properties of directories on the flat stores (specification Spec)       *)
(***************************************************************************)

\* C26. Listing stays inside the directory, as claimed: on a flat store the key of
\* every entry ListDir(d) returns lies below d's key followed by the separator, so
\* that ListDir("a") returns nothing stored under "ab/".
C26_ListingInsideAsClaimed ==
    (ret.op = "ListDir" /\ ret.err = "" /\ backend # "local")
        => \A i \in DOMAIN ret.out :
              HasPrefix(Join(Base, ret.p) \o ret.out[i].name,
                        Join(Base, ret.p) \o <<"/">>)

\* The prefix DeleteDir(d) lists on a flat store.
PrefixOf(d) == Join(Base, ensureOSSDirPath(d))

\* C27. DeleteDir deletes exactly the listed keys, as claimed: on a flat store,
\* after DeleteDir(d) every key of d's prefix other than the placeholder-identity
\* keys (the prefix itself, the prefix and a separator) is gone, and every other
\* object is there as it was.
C27_DeleteDirKeysAsClaimed ==
    (ret.op = "DeleteDir" /\ ret.err = "" /\ backend # "local")
        => \A k \in DOMAIN ret.pre :
              IF /\ HasPrefix(k, PrefixOf(ret.p))
                 /\ ~isDirectoryPlaceholder(k, PrefixOf(ret.p))
              THEN k \notin DOMAIN bucket
              ELSE k \in DOMAIN bucket /\ bucket[k] = ret.pre[k]

(***************************************************************************)
(* Properties of Copy (specification Spec)                                 *)
(***************************************************************************)

\* C28. Copy preserves the source, as claimed: on every backend, when Copy(src, dst)
\* of a path src that holds content succeeds (src and dst may name the same path),
\* src and dst both hold that content afterwards; and when Copy fails because
\* there is nothing at src to open, the store is as it was.
C28_CopyAsClaimed ==
    ret.op = "Copy" =>
        /\ (ret.err = "" /\ Held(ret.pre, ret.p) # <<>>)
               => /\ Held(Store, ret.p) = Held(ret.pre, ret.p)
                  /\ Held(Store, ret.q) = Held(ret.pre, ret.p)
        /\ Join(Base, ret.p) \notin DOMAIN ret.pre
               => /\ ret.err # ""
                  /\ Store = ret.pre

(***************************************************************************)
(* Properties of the facade across calls (specification SpecFacade)        *)
(***************************************************************************)

\* No option of the list was made by WithAssignMode.
NoAssign(opts) == \A i \in DOMAIN opts : opts[i].name # "WithAssignMode"

\* A GetStorage call on a value whose assigned mode is set, with no WithAssignMode
\* among its options, leaves the assigned mode as it is and validates and
\* constructs the backend of that mode.
StickyStep ==
    (ret'.op = "GetStorage" /\ types.AssignMode # "" /\ NoAssign(ret'.p))
        => /\ types'.AssignMode = types.AssignMode
           /\ ret'.out.made \in {"", ConstructorOf(Selected(types.AssignMode))}
           /\ ret'.out.storage \in {"nil", Selected(types.AssignMode)}
           /\ (ret'.out.made = "") <=> RequiredEmpty(types', Selected(types.AssignMode))

\* A GetStorage call leaves in the Types value what its options set and, for the
\* assigned mode, the mode when the options left the assigned mode unset.
WrittenStep ==
    ret'.op = "GetStorage"
        => /\ [types' EXCEPT !.AssignMode = ""]
                 = [ApplyOptions(ret'.p, types) EXCEPT !.AssignMode = ""]
           /\ types'.AssignMode = Chosen(ApplyOptions(ret'.p, types))

\* C30. The assigned mode is sticky: GetStorage writes the options it applies and
\* the assigned mode it inherits into the Types value, and once the assigned mode
\* of a value is set no GetStorage call without WithAssignMode changes it: every
\* such call selects the backend of that mode, whatever WithMode or With...Config
\* options it is given.
C30_AssignModeSticky == [][WrittenStep /\ StickyStep]_vars

\* C30: a second call on a value whose assigned mode the first call left at minio
\* was given WithMode(oss), and called the MinIO constructor.
C30_Witness ==
    /\ ret.op = "GetStorage" /\ ret.q = 2
    /\ ret.pre.AssignMode = MinIO
    /\ ret.p = <<StorageOption("WithMode", OSS)>>
    /\ types.AssignMode = MinIO /\ types.Mode = OSS
    /\ ret.out.made = "NewMinIOStorage"
====
